---------------------------- MODULE Spec2Model ----------------------------
(***************************************************************************)
(* Model of the detection and consolidation engine of the incident agent:  *)
(* the detectors of agent/detectors.py and the ReportGenerator of          *)
(* agent/report.py, over the data classes of agent/models.py.              *)
(*                                                                         *)
(* Representation.                                                         *)
(*   - a string that the code searches (a filename, an entity name) is a   *)
(*     sequence of one-character strings, so that `x in s` is a real       *)
(*     substring search;                                                   *)
(*   - a string that the code only compares for equality (a status, a      *)
(*     weekday label, an enum value) is a TLA+ string;                     *)
(*   - an Optional[...] value is <<>> (None) or <<v>>;                     *)
(*   - a dict is a function; a dict whose iteration order the code relies  *)
(*     on (cv.entity_stats) is a sequence of [name, days] items in         *)
(*     insertion order, with distinct names;                               *)
(*   - the profile's numeric statistics are naturals.  The code holds      *)
(*     mean, median and mode as floats; every comparison the detectors     *)
(*     make on them (> 0, rows > m * 3, rows < m * 0.1, n > max * 1.5)     *)
(*     is exact in binary64 for the integral values used here, so          *)
(*     r < m * 0.1 is written 10 * r < m and n > max * 1.5 is written      *)
(*     2 * n > 3 * max;                                                    *)
(*   - an f-string description or recommendation is a function of the      *)
(*     incident's other fields and is not carried.                         *)
(*                                                                         *)
(*   - a date is its day number, the days since 0001-01-01 (Python's       *)
(*     date.toordinal() - 1), so that day % 7 is date.weekday(); a naive   *)
(*     datetime is [day, secs, micro]; a timestamp or time-of-day string   *)
(*     is the record of its fields, with a flag for text that is not of    *)
(*     the format, and parsing it checks the flag and the ranges.          *)
(*                                                                         *)
(* Each function has a specification of its own (SpecConsolidate,          *)
(* SpecGenerate, SpecMissing, SpecDup, SpecEmpty, SpecVolume, SpecLate,    *)
(* SpecPrevious, SpecDetectors): the initial states bind its arguments to  *)
(* every value of a bounded set, and the one step is the call, which binds *)
(* the result.  SpecPipeline and SpecAgentic are Agent.run in its two      *)
(* modes, one step per loop iteration; SpecAgenticFair adds the weak       *)
(* fairness of the steps of ReActAgent.run.  SpecParse is CVParser.parse   *)
(* over profile documents built from lines, and SpecLabels runs all the    *)
(* detectors over profiles keyed by either form of the weekday label.      *)
(*                                                                         *)
(*   - a profile document is the sequence of its lines, each a sequence    *)
(*     of one-character strings; a character that matters only by its      *)
(*     class (the superscript two, the en dash, the bullet) is one token;  *)
(*     a float the parser produces is a [digits, places] decimal.          *)
(***************************************************************************)
EXTENDS Integers, Sequences, FiniteSets, TLC

VARIABLES
    pc,              \* position: "start" (inputs bound, nothing run), "done",
                     \* and the positions inside Agent.run
    files,           \* List[FileMetadata]: the batch handed to a detector
    cv,              \* SourceCV: the profile handed to a detector
    current_date,    \* the evaluation date, as its day number
    incidents,       \* List[Incident]: the list a detector returned
    source_report,   \* Optional[SourceReport] returned by consolidate_source
    source_reports,  \* List[SourceReport] handed to generate
    report,          \* Optional[ConsolidatedReport] returned by generate
    error,           \* Optional[str]: the exception that left the call
    detectors,       \* Agent.detectors: the detectors, in the order they run
    data_dir,        \* the data directory: the day folders and the profiles
    date_str,        \* the argument of Agent.run, "YYYY-MM-DD" as (Y, M, D)
    agent_mode,      \* Agent.mode: "pipeline" or "agentic"
    todo,            \* the items of files_data the source loop has yet to visit
    scan_results,    \* AgentTools.scan_results: source_id -> List[Incident]
    source_stats,    \* AgentTools.source_stats: source_id -> counters
    step,            \* ReActAgent.run: the number of loop iterations begun
    llm_calls,       \* ReActAgent.run: the calls of llm.generate made so far
    summary,         \* Optional[str]: the "summary" of ReActAgent.run's result
    content          \* Optional: the profile document handed to CVParser

run_vars ==
    <<detectors, data_dir, date_str, agent_mode, todo, scan_results,
      source_stats, step, llm_calls, summary, content>>

vars == <<pc, files, cv, current_date, incidents, source_report,
          source_reports, report, error, run_vars>>

-----------------------------------------------------------------------------
(* Bounds of the model *)

\* longest incident list handed to consolidate_source
MaxIncidents == 5
\* longest list of source reports handed to generate
MaxSources == 3
\* longest batch handed to MissingFileDetector
MaxMissingFiles == 2
\* longest batch handed to DuplicatedFailedFileDetector
MaxDupFiles == 3
\* longest batch handed to UnexpectedEmptyFileDetector
MaxEmptyFiles == 3
\* longest batch handed to UnexpectedVolumeVariationDetector
MaxVolumeFiles == 3
MaxLateFiles == 2
MaxPreviousFiles == 2
\* longest batch handed to the detector loop of one source
MaxDetectFiles == 2
\* longest batch handed to the detectors under mislabelled baselines
MaxLabelFiles == 2
\* most sources in the files.json of one day
MaxRunSources == 2

-----------------------------------------------------------------------------
(* Generic helpers *)

None == <<>>
Some(v) == <<v>>

\* {} and d.get(k, default) for a dict d
EmptyDict == <<>>
DictGet(d, k, default) == IF k \in DOMAIN d THEN d[k] ELSE default

SeqsUpTo(S, n) == UNION {[1..k -> S] : k \in 0..n}

\* `pat in s` for Python strings
Contains(pat, s) ==
    \E i \in 1..(Len(s) - Len(pat) + 1) : SubSeq(s, i, i + Len(pat) - 1) = pat

-----------------------------------------------------------------------------
(* agent/models.py *)

URGENT == "URGENT"
NEEDS_ATTENTION == "NEEDS_ATTENTION"
ALL_GOOD == "ALL_GOOD"
IncidentSeverity == {URGENT, NEEDS_ATTENTION, ALL_GOOD}

MISSING_FILE == "Missing File"
DUPLICATED_FILE == "Duplicated File"
UNEXPECTED_EMPTY == "Unexpected Empty File"
VOLUME_VARIATION == "Unexpected Volume Variation"
LATE_UPLOAD == "File Upload After Schedule"
PREVIOUS_FILE == "Upload of Previous File"
IncidentType == {MISSING_FILE, DUPLICATED_FILE, UNEXPECTED_EMPTY,
                 VOLUME_VARIATION, LATE_UPLOAD, PREVIOUS_FILE}

Incident(type, sev, sid, fname, det) ==
    [incident_type |-> type, severity |-> sev, source_id |-> sid,
     file_name |-> fname, details |-> det]

SourceReport(sid, st, incs, n, rows) ==
    [source_id |-> sid, status |-> st, incidents |-> incs,
     processed_files_count |-> n, total_rows |-> rows]

ConsolidatedReport(date, srcs, summ, st) ==
    [date |-> date, sources |-> srcs, summary |-> summ, status |-> st]

\* The text of an ISO-8601 timestamp "YYYY-MM-DDTHH:MM:SS.ffffff+HH:MM": its
\* date, time of day and microsecond fields, the UTC offset in minutes (None
\* when the text has none), and whether the text after the date is of the
\* format at all.
IsoText(ymd, hms, micro, offset, wellformed) ==
    [ymd |-> ymd, hms |-> hms, micro |-> micro, offset |-> offset,
     wellformed |-> wellformed]

\* "2025-09-08T08:06:47.089856+00:00"
DefaultUploadedAt == IsoText(<<2025, 9, 8>>, <<8, 6, 47>>, 89856, Some(0), TRUE)

FileMetadataAt(name, rows, st, dup, at) ==
    [filename |-> name, rows |-> rows, status |-> st, is_duplicated |-> dup,
     uploaded_at |-> at]

FileMetadata(name, rows, st, dup) ==
    FileMetadataAt(name, rows, st, dup, DefaultUploadedAt)

SourceCV(sid, expected, window, entities, empty) ==
    [source_id |-> sid, expected_files_by_day |-> expected,
     upload_window_by_day |-> window, entity_stats |-> entities,
     empty_file_stats |-> empty]

\* No Agent: the variables of Agent.run, in the specifications of one function
NoRun ==
    /\ detectors = <<>>
    /\ data_dir = None
    /\ date_str = None
    /\ agent_mode = "pipeline"
    /\ todo = <<>>
    /\ scan_results = <<>>
    /\ source_stats = EmptyDict
    /\ step = 0
    /\ llm_calls = 0
    /\ summary = None
    /\ content = None

-----------------------------------------------------------------------------
(* Dates: current_date.strftime("%a") and current_date.strftime("%A") *)

\* strftime("%a") giving the full name, the label of the entity table
strftime_a_full(d) ==
    <<"Monday", "Tuesday", "Wednesday", "Thursday", "Friday",
      "Saturday", "Sunday">>[(d % 7) + 1]
strftime_a(d) ==
    <<"Mon", "Tue", "Wed", "Thu", "Fri", "Sat", "Sun">>[(d % 7) + 1]
strftime_A(d) ==
    <<"Monday", "Tuesday", "Wednesday", "Thursday", "Friday",
      "Saturday", "Sunday">>[(d % 7) + 1]

(* The calendar of datetime: leap years, month lengths, day numbers *)

IsLeap(y) == y % 4 = 0 /\ (y % 100 # 0 \/ y % 400 = 0)

DaysInMonth(y, m) ==
    IF m = 2 THEN (IF IsLeap(y) THEN 29 ELSE 28)
    ELSE IF m \in {4, 6, 9, 11} THEN 30 ELSE 31

\* date(y, m, d) exists: 1 <= y <= 9999, 1 <= m <= 12, 1 <= d <= dim
ValidDate(ymd) ==
    /\ ymd[1] \in 1..9999
    /\ ymd[2] \in 1..12
    /\ ymd[3] \in 1..DaysInMonth(ymd[1], ymd[2])

RECURSIVE DaysBeforeMonth(_, _)
DaysBeforeMonth(y, m) ==
    IF m = 1 THEN 0 ELSE DaysBeforeMonth(y, m - 1) + DaysInMonth(y, m - 1)

\* date(y, m, d).toordinal() - 1
DayNumber(ymd) ==
    LET y1 == ymd[1] - 1
    IN  y1 * 365 + (y1 \div 4) - (y1 \div 100) + (y1 \div 400)
        + DaysBeforeMonth(ymd[1], ymd[2]) + (ymd[3] - 1)

\* a naive datetime, and a > b on naive datetimes
DateTime(day, secs, micro) == [day |-> day, secs |-> secs, micro |-> micro]

DateTimeAfter(a, b) ==
    \/ a.day > b.day
    \/ a.day = b.day /\ a.secs > b.secs
    \/ a.day = b.day /\ a.secs = b.secs /\ a.micro > b.micro

SecondsOf(hms) == hms[1] * 3600 + hms[2] * 60 + hms[3]

ValidTime(hms) == hms[1] \in 0..23 /\ hms[2] \in 0..59 /\ hms[3] \in 0..59

\* dt + timedelta(hours=h)
\* dt + timedelta(hours=h) that stays in the day of dt: the time of day
\* wraps at midnight and the date is not carried
PlusHours_same_day(dt, h) ==
    DateTime(dt.day, (dt.secs + h * 3600) % 86400, dt.micro)

PlusHours(dt, h) ==
    LET total == dt.secs + h * 3600
    IN  DateTime(dt.day + (total \div 86400), total % 86400, dt.micro)

\* datetime.fromisoformat(text): None for a ValueError, or the datetime with
\* its tzinfo
fromisoformat(text) ==
    IF text.wellformed /\ ValidDate(text.ymd) /\ ValidTime(text.hms)
    THEN Some([naive |-> DateTime(DayNumber(text.ymd), SecondsOf(text.hms),
                                  text.micro),
               tzinfo |-> text.offset])
    ELSE None

\* The text of a time of day, "HH:MM:SS"; the empty string; any other text
TimeText(h, m, s) == [kind |-> "hms", hms |-> <<h, m, s>>]
EmptyText == [kind |-> "empty"]
OtherText == [kind |-> "other"]

\* datetime.strptime(text, "%H:%M:%S").time(): None for a ValueError
strptime_HMS(text) ==
    IF text.kind = "hms" /\ ValidTime(text.hms) THEN Some(text.hms) ELSE None

-----------------------------------------------------------------------------
(* agent/detectors.py *)

\* f"_{entity}_"
EntityPattern(entity) == <<"_">> \o entity \o <<"_">>

\* for entity in cv.entity_stats.keys(): if f"_{entity}_" in filename: ... break
\* None, or the first entity in profile order whose pattern is in the filename.
FirstEntity(filename, entity_stats) ==
    LET hits == {i \in 1..Len(entity_stats) :
                    Contains(EntityPattern(entity_stats[i].name), filename)}
    IN  IF hits = {} THEN None
        ELSE Some(entity_stats[CHOOSE i \in hits : \A j \in hits : i <= j].name)

\* the threshold of MissingFileDetector.detect
MissingThreshold_raw_min(expected_stats) == expected_stats.min

MissingThreshold(expected_stats) ==
    IF expected_stats.min = 0
    THEN IF expected_stats.median > 0 \/ expected_stats.mode > 0 THEN 1 ELSE 0
    ELSE expected_stats.min

\* present_entities after the loop over the files
PresentEntities(fs, entity_stats) ==
    {e \in {entity_stats[i].name : i \in 1..Len(entity_stats)} :
        \E k \in 1..Len(fs) : FirstEntity(fs[k].filename, entity_stats) = Some(e)}

\* the incidents of the loop over cv.entity_stats.items(), in profile order
RECURSIVE MissingEntityIncidents(_, _, _, _)
MissingEntityIncidents(items, present, day_full, source_id) ==
    IF items = <<>> THEN <<>>
    ELSE LET item == Head(items)
             rest == MissingEntityIncidents(Tail(items), present, day_full,
                                            source_id)
         IN  IF day_full \notin DOMAIN item.days THEN rest
             ELSE IF item.days[day_full].median_files > 0
                     /\ item.name \notin present
                  THEN <<Incident(MISSING_FILE, URGENT, source_id, None,
                                  [entity |-> item.name])>> \o rest
                  ELSE rest

\* MissingFileDetector.detect with `<=` for `<` in the count check
MissingFileDetector_detect_le(fs, profile, date) ==
    LET day_name == strftime_a(date)
    IN  IF day_name \notin DOMAIN profile.expected_files_by_day THEN <<>>
        ELSE
        LET expected_stats == profile.expected_files_by_day[day_name]
            threshold == MissingThreshold(expected_stats)
            count_incidents ==
                IF Len(fs) <= threshold
                THEN <<Incident(MISSING_FILE, URGENT, profile.source_id, None,
                                [expected_min |-> threshold, found |-> Len(fs),
                                 cv_min |-> expected_stats.min,
                                 cv_mean |-> expected_stats.mean])>>
                ELSE <<>>
        IN  count_incidents \o
            MissingEntityIncidents(profile.entity_stats,
                                   PresentEntities(fs, profile.entity_stats),
                                   strftime_A(date), profile.source_id)

\* MissingFileDetector.detect without the early return: a weekday with no
\* file-count entry skips the count check only
MissingFileDetector_detect_no_return(fs, profile, date) ==
    LET day_name == strftime_a(date)
        count_incidents ==
            IF day_name \notin DOMAIN profile.expected_files_by_day THEN <<>>
            ELSE LET expected_stats == profile.expected_files_by_day[day_name]
                     threshold == MissingThreshold(expected_stats)
                 IN  IF Len(fs) < threshold
                     THEN <<Incident(MISSING_FILE, URGENT, profile.source_id,
                                None,
                                [expected_min |-> threshold, found |-> Len(fs),
                                 cv_min |-> expected_stats.min,
                                 cv_mean |-> expected_stats.mean])>>
                     ELSE <<>>
    IN  count_incidents \o
        MissingEntityIncidents(profile.entity_stats,
                               PresentEntities(fs, profile.entity_stats),
                               strftime_A(date), profile.source_id)

MissingFileDetector_detect(fs, profile, date) ==
    LET day_name == strftime_a(date)
    IN  IF day_name \notin DOMAIN profile.expected_files_by_day THEN <<>>
        ELSE
        LET expected_stats == profile.expected_files_by_day[day_name]
            min_files == expected_stats.min
            mean_files == expected_stats.mean
            threshold == MissingThreshold(expected_stats)
            count_incidents ==
                IF Len(fs) < threshold
                THEN <<Incident(MISSING_FILE, URGENT, profile.source_id, None,
                                [expected_min |-> threshold, found |-> Len(fs),
                                 cv_min |-> min_files, cv_mean |-> mean_files])>>
                ELSE <<>>
            present_entities == PresentEntities(fs, profile.entity_stats)
        IN  count_incidents \o
            MissingEntityIncidents(profile.entity_stats, present_entities,
                                   strftime_A(date), profile.source_id)

\* The incidents of one iteration of DuplicatedFailedFileDetector's loop, for
\* the file at position k; seen_filenames then holds the names before k.
DupFileIncidents(fs, k, source_id) ==
    LET f == fs[k]
        seen_filenames == {fs[j].filename : j \in 1..(k - 1)}
    IN  (IF f.is_duplicated \/ f.status = "STOPPED" \/ f.status = "failed"
         THEN <<Incident(DUPLICATED_FILE, URGENT, source_id, Some(f.filename),
                         [status |-> f.status,
                          is_duplicated |-> f.is_duplicated])>>
         ELSE <<>>)
        \o
        (IF f.filename \in seen_filenames
         THEN <<Incident(DUPLICATED_FILE, URGENT, source_id, Some(f.filename),
                         EmptyDict)>>
         ELSE <<>>)

\* the same iteration with seen_filenames.add before the membership test
DupFileIncidents_add_first(fs, k, source_id) ==
    LET f == fs[k]
        seen_filenames == {fs[j].filename : j \in 1..k}
    IN  (IF f.is_duplicated \/ f.status = "STOPPED" \/ f.status = "failed"
         THEN <<Incident(DUPLICATED_FILE, URGENT, source_id, Some(f.filename),
                         [status |-> f.status,
                          is_duplicated |-> f.is_duplicated])>>
         ELSE <<>>)
        \o
        (IF f.filename \in seen_filenames
         THEN <<Incident(DUPLICATED_FILE, URGENT, source_id, Some(f.filename),
                         EmptyDict)>>
         ELSE <<>>)

RECURSIVE DupLoop(_, _, _)
DupLoop(fs, n, source_id) ==
    IF n = 0 THEN <<>>
    ELSE DupLoop(fs, n - 1, source_id) \o DupFileIncidents(fs, n, source_id)

RECURSIVE DupLoop_add_first(_, _, _)
DupLoop_add_first(fs, n, source_id) ==
    IF n = 0 THEN <<>>
    ELSE DupLoop_add_first(fs, n - 1, source_id)
             \o DupFileIncidents_add_first(fs, n, source_id)

DuplicatedFailedFileDetector_detect_add_first(fs, profile, date) ==
    DupLoop_add_first(fs, Len(fs), profile.source_id)

DuplicatedFailedFileDetector_detect(fs, profile, date) ==
    DupLoop(fs, Len(fs), profile.source_id)

\* max_empty of UnexpectedEmptyFileDetector.detect
MaxEmpty(profile, date) ==
    DictGet(DictGet(profile.empty_file_stats, strftime_a(date), EmptyDict),
            "max", 0)

RECURSIVE EmptyLoop(_, _, _)
EmptyLoop(fs, max_empty, source_id) ==
    IF fs = <<>> THEN <<>>
    ELSE LET f == Head(fs)
             rest == EmptyLoop(Tail(fs), max_empty, source_id)
         IN  IF f.rows = 0
             THEN IF max_empty > 0 THEN rest
                  ELSE <<Incident(UNEXPECTED_EMPTY, URGENT, source_id,
                                  Some(f.filename),
                                  [rows |-> f.rows,
                                   max_expected_empty |-> max_empty])>>
                       \o rest
             ELSE rest

\* UnexpectedEmptyFileDetector.detect tolerating max_empty empty files:
\* empty files are flagged when there are more of them than max
UnexpectedEmptyFileDetector_detect_over_max(fs, profile, date) ==
    LET max_empty == MaxEmpty(profile, date)
        empty_files_count == Len(SelectSeq(fs, LAMBDA f : f.rows = 0))
    IN  EmptyLoop(fs, IF empty_files_count > max_empty THEN 0 ELSE max_empty,
                  profile.source_id)

UnexpectedEmptyFileDetector_detect(fs, profile, date) ==
    EmptyLoop(fs, MaxEmpty(profile, date), profile.source_id)

\* cv.entity_stats.get(entity, {}).get(day_full)
EntityDayStatsOf(entity_stats, entity, day_full) ==
    LET at == {i \in 1..Len(entity_stats) : entity_stats[i].name = entity}
        days == IF at = {} THEN EmptyDict
                ELSE entity_stats[CHOOSE i \in at : TRUE].days
    IN  IF day_full \in DOMAIN days THEN Some(days[day_full]) ELSE None

\* The incidents of one iteration of the per-file loop of
\* UnexpectedVolumeVariationDetector.detect
VolumeFileIncidents(f, profile, date) ==
    LET entity == FirstEntity(f.filename, profile.entity_stats)
    IN  IF entity = None THEN <<>>
        ELSE
        LET entity_day_stats ==
                EntityDayStatsOf(profile.entity_stats, entity[1],
                                 strftime_A(date))
        IN  IF entity_day_stats = None THEN <<>>
            ELSE
            LET median_rows == entity_day_stats[1].median_rows
            IN  IF median_rows > 0
                   /\ (f.rows > median_rows * 3 \/ 10 * f.rows < median_rows)
                THEN <<Incident(VOLUME_VARIATION, NEEDS_ATTENTION,
                                profile.source_id, Some(f.filename),
                                [rows |-> f.rows, median_rows |-> median_rows])>>
                ELSE <<>>

RECURSIVE VolumeLoop(_, _, _)
VolumeLoop(fs, profile, date) ==
    IF fs = <<>> THEN <<>>
    ELSE VolumeFileIncidents(Head(fs), profile, date)
             \o VolumeLoop(Tail(fs), profile, date)

\* the aggregate surge check: total_files > max_files * 1.5 and max_files > 0
VolumeSurgeIncidents_ge(fs, stats, source_id) ==
    IF 2 * Len(fs) >= 3 * stats.max /\ stats.max > 0
    THEN <<Incident(VOLUME_VARIATION, NEEDS_ATTENTION, source_id, None,
                    [total_files |-> Len(fs), expected_max |-> stats.max])>>
    ELSE <<>>

VolumeSurgeIncidents(fs, stats, source_id) ==
    IF 2 * Len(fs) > 3 * stats.max /\ stats.max > 0
    THEN <<Incident(VOLUME_VARIATION, NEEDS_ATTENTION, source_id, None,
                    [total_files |-> Len(fs), expected_max |-> stats.max])>>
    ELSE <<>>

\* the detector with the per-file check outside the test of the file-count
\* entry: only the aggregate check is skipped when the entry is missing
UnexpectedVolumeVariationDetector_detect_per_file_always(fs, profile, date) ==
    LET day_name == strftime_a(date)
    IN  (IF day_name \notin DOMAIN profile.expected_files_by_day THEN <<>>
         ELSE VolumeSurgeIncidents(fs, profile.expected_files_by_day[day_name],
                                   profile.source_id))
        \o VolumeLoop(fs, profile, date)

UnexpectedVolumeVariationDetector_detect(fs, profile, date) ==
    LET day_name == strftime_a(date)
    IN  IF day_name \notin DOMAIN profile.expected_files_by_day THEN <<>>
        ELSE VolumeSurgeIncidents(fs, profile.expected_files_by_day[day_name],
                                  profile.source_id)
             \o VolumeLoop(fs, profile, date)

\* if not window or not window["end"]: the window is absent, its end is None
\* or its end is the empty string
NoWindowEnd(profile, date) ==
    LET day_name == strftime_a(date)
    IN  \/ day_name \notin DOMAIN profile.upload_window_by_day
        \/ profile.upload_window_by_day[day_name].end = None
        \/ profile.upload_window_by_day[day_name].end[1].kind = "empty"

\* One evaluation of the if inside LateUploadDetector's loop, for a file whose
\* timestamp parsed to uploaded
LateFileIncidents(f, uploaded, tolerance_dt, expected_end_dt, source_id) ==
    IF DateTimeAfter(uploaded.naive, tolerance_dt)
    THEN <<Incident(LATE_UPLOAD, NEEDS_ATTENTION, source_id, Some(f.filename),
                    [uploaded_at |-> uploaded.naive,
                     expected_end |-> expected_end_dt])>>
    ELSE <<>>

\* The for loop inside the try: a timestamp that does not parse raises, and
\* the except around the loop ends it with the incidents appended so far.
RECURSIVE LateLoop(_, _, _, _)
LateLoop(fs, tolerance_dt, expected_end_dt, source_id) ==
    IF fs = <<>> THEN <<>>
    ELSE LET uploaded == fromisoformat(Head(fs).uploaded_at)
         IN  IF uploaded = None THEN <<>>
             ELSE LateFileIncidents(Head(fs), uploaded[1], tolerance_dt,
                                    expected_end_dt, source_id)
                  \o LateLoop(Tail(fs), tolerance_dt, expected_end_dt,
                              source_id)

\* the loop with a try around each file instead: a timestamp that does not
\* parse skips its own file only
RECURSIVE LateLoop_per_file(_, _, _, _)
LateLoop_per_file(fs, tolerance_dt, expected_end_dt, source_id) ==
    IF fs = <<>> THEN <<>>
    ELSE LET uploaded == fromisoformat(Head(fs).uploaded_at)
         IN  (IF uploaded = None THEN <<>>
              ELSE LateFileIncidents(Head(fs), uploaded[1], tolerance_dt,
                                     expected_end_dt, source_id))
             \o LateLoop_per_file(Tail(fs), tolerance_dt, expected_end_dt,
                                  source_id)

\* The exception the try body raises, None when it runs to its end: strptime
\* and fromisoformat raise ValueError for text they reject.
LateRaised(fs, profile, date) ==
    IF strptime_HMS(profile.upload_window_by_day[strftime_a(date)].end[1])
           = None
       \/ \E i \in 1..Len(fs) : fromisoformat(fs[i].uploaded_at) = None
    THEN Some("ValueError")
    ELSE None

\* an except clause naming only the class of the exception itself
Caught_same_class(handler, exc) == handler = exc

\* "except handler" catches exc: Exception is the base of ValueError
Caught(handler, exc) == handler = "Exception" \/ handler = exc

\* The exception that leaves LateUploadDetector.detect, None when it returns
LateUploadDetector_error(fs, profile, date) ==
    IF NoWindowEnd(profile, date) THEN None
    ELSE LET raised == LateRaised(fs, profile, date)
         IN  IF raised # None /\ ~Caught("Exception", raised[1])
             THEN raised ELSE None

\* LateUploadDetector.detect with >= for > against the deadline
LateUploadDetector_detect_ge(fs, profile, date) ==
    IF NoWindowEnd(profile, date) THEN <<>>
    ELSE
    LET end_time ==
            strptime_HMS(profile.upload_window_by_day[strftime_a(date)].end[1])
    IN  IF end_time = None THEN <<>>
        ELSE
        LET expected_end_dt == DateTime(date, SecondsOf(end_time[1]), 0)
            tolerance_dt == PlusHours(expected_end_dt, 4)
        IN  LateLoop(fs, [tolerance_dt EXCEPT !.micro = @ - 1],
                     expected_end_dt, profile.source_id)

\* LateUploadDetector.detect with the try around each file
LateUploadDetector_detect_per_file(fs, profile, date) ==
    IF NoWindowEnd(profile, date) THEN <<>>
    ELSE
    LET end_time ==
            strptime_HMS(profile.upload_window_by_day[strftime_a(date)].end[1])
    IN  IF end_time = None THEN <<>>
        ELSE
        LET expected_end_dt == DateTime(date, SecondsOf(end_time[1]), 0)
            tolerance_dt == PlusHours(expected_end_dt, 4)
        IN  LateLoop_per_file(fs, tolerance_dt, expected_end_dt,
                              profile.source_id)

LateUploadDetector_detect(fs, profile, date) ==
    IF NoWindowEnd(profile, date) THEN <<>>
    ELSE
    LET end_time ==
            strptime_HMS(profile.upload_window_by_day[strftime_a(date)].end[1])
    IN  IF end_time = None THEN <<>>
        ELSE
        LET expected_end_dt == DateTime(date, SecondsOf(end_time[1]), 0)
            tolerance_dt == PlusHours(expected_end_dt, 4)
        IN  LateLoop(fs, tolerance_dt, expected_end_dt, profile.source_id)

\* \d and int() on decimal digits
DigitChars == <<"0", "1", "2", "3", "4", "5", "6", "7", "8", "9">>

IsDigit(c) == \E i \in 1..10 : DigitChars[i] = c

DigitValue(c) == (CHOOSE i \in 1..10 : DigitChars[i] = c) - 1

RECURSIVE ParseDigits(_)
ParseDigits(ds) ==
    IF ds = <<>> THEN 0
    ELSE ParseDigits(SubSeq(ds, 1, Len(ds) - 1)) * 10 + DigitValue(ds[Len(ds)])

\* re.search(r'_(\d{8})\.csv$', filename): None, or group(1).  The pattern is
\* anchored at the end, so it can only match the last 13 characters.
FileDateStr(filename) ==
    LET n == Len(filename)
    IN  IF /\ n >= 13
           /\ filename[n - 12] = "_"
           /\ \A i \in (n - 11)..(n - 4) : IsDigit(filename[i])
           /\ SubSeq(filename, n - 3, n) = <<".", "c", "s", "v">>
        THEN Some(SubSeq(filename, n - 11, n - 4))
        ELSE None

\* datetime.strptime(s, "%Y%m%d").date() on eight digits: None for a
\* ValueError, or the date as (year, month, day)
strptime_Ymd(ds) ==
    LET ymd == <<ParseDigits(SubSeq(ds, 1, 4)), ParseDigits(SubSeq(ds, 5, 6)),
                 ParseDigits(SubSeq(ds, 7, 8))>>
    IN  IF ValidDate(ymd) THEN Some(ymd) ELSE None

\* One iteration of PreviousFileDetector's loop, with the comparison given
\* the number of days the file may be old
PreviousFileIncidentsOlderThan(f, source_id, date, days) ==
    LET match == FileDateStr(f.filename)
    IN  IF match = None THEN <<>>
        ELSE LET file_date == strptime_Ymd(match[1])
             IN  IF file_date = None THEN <<>>
                 ELSE IF DayNumber(file_date[1]) < date - days
                 THEN <<Incident(PREVIOUS_FILE, ALL_GOOD, source_id,
                                 Some(f.filename),
                                 [file_date |-> file_date[1]])>>
                 ELSE <<>>

\* the iteration with timedelta(days=1)
PreviousFileIncidents_one_day(f, source_id, date) ==
    PreviousFileIncidentsOlderThan(f, source_id, date, 1)

PreviousFileIncidents(f, source_id, date) ==
    PreviousFileIncidentsOlderThan(f, source_id, date, 2)

RECURSIVE PreviousLoop(_, _, _)
PreviousLoop(fs, source_id, date) ==
    IF fs = <<>> THEN <<>>
    ELSE PreviousFileIncidents(Head(fs), source_id, date)
         \o PreviousLoop(Tail(fs), source_id, date)

PreviousFileDetector_detect(fs, profile, date) ==
    PreviousLoop(fs, profile.source_id, date)

\* The exception that leaves PreviousFileDetector.detect: the ValueError of
\* strptime is raised inside the try of its own iteration.
PreviousFileDetector_error(fs, profile, date) ==
    IF \E i \in 1..Len(fs) :
           /\ FileDateStr(fs[i].filename) # None
           /\ strptime_Ymd(FileDateStr(fs[i].filename)[1]) = None
           /\ ~Caught("ValueError", "ValueError")
    THEN Some("ValueError")
    ELSE None

-----------------------------------------------------------------------------
(* agent/report.py *)

consolidate_source_no_escalation(source_id, incs, processed_count, total_rows) ==
    LET urgent == Len(SelectSeq(incs, LAMBDA i : i.severity = URGENT))
        attention ==
            Len(SelectSeq(incs, LAMBDA i : i.severity = NEEDS_ATTENTION))
        status == IF urgent >= 1 THEN URGENT
                  ELSE IF attention > 0 THEN NEEDS_ATTENTION
                  ELSE ALL_GOOD
    IN  SourceReport(source_id, status, incs, processed_count, total_rows)

consolidate_source(source_id, incs, processed_count, total_rows) ==
    LET urgent_incidents == SelectSeq(incs, LAMBDA i : i.severity = URGENT)
        attention_incidents ==
            SelectSeq(incs, LAMBDA i : i.severity = NEEDS_ATTENTION)
        status == IF Len(urgent_incidents) >= 1 THEN URGENT
                  ELSE IF Len(attention_incidents) > 0
                       THEN IF Len(attention_incidents) > 3
                            THEN URGENT
                            ELSE NEEDS_ATTENTION
                  ELSE ALL_GOOD
    IN  SourceReport(source_id, status, incs, processed_count, total_rows)

\* The for loop of generate: the two counters after the reports of rs.
RECURSIVE generate_counts(_)
generate_counts(rs) ==
    IF rs = <<>> THEN [urgent_count |-> 0, needs_attention_count |-> 0]
    ELSE LET c == generate_counts(SubSeq(rs, 1, Len(rs) - 1))
             r == rs[Len(rs)]
         IN  IF r.status = URGENT
             THEN [c EXCEPT !.urgent_count = @ + 1]
             ELSE IF r.status = NEEDS_ATTENTION
                  THEN [c EXCEPT !.needs_attention_count = @ + 1]
                  ELSE c

\* The summary text is the date, the status and the two counters, formatted;
\* generated_at (the wall clock) is not carried.
generate_attention_first(date, rs) ==
    LET c == generate_counts(rs)
        overall_status == IF c.needs_attention_count > 0 THEN NEEDS_ATTENTION
                          ELSE IF c.urgent_count > 0 THEN URGENT
                          ELSE ALL_GOOD
    IN  ConsolidatedReport(date, rs,
            [status |-> overall_status,
             urgent_count |-> c.urgent_count,
             needs_attention_count |-> c.needs_attention_count],
            overall_status)

generate(date, rs) ==
    LET c == generate_counts(rs)
        overall_status == IF c.urgent_count > 0 THEN URGENT
                          ELSE IF c.needs_attention_count > 0 THEN NEEDS_ATTENTION
                          ELSE ALL_GOOD
    IN  ConsolidatedReport(date, rs,
            [status |-> overall_status,
             urgent_count |-> c.urgent_count,
             needs_attention_count |-> c.needs_attention_count],
            overall_status)

-----------------------------------------------------------------------------
(* agent/core.py: Agent, pipeline mode                                     *)
(*                                                                         *)
(* The data directory is [folders, cvs]: folders maps a date to the        *)
(* content of files.json in that date's folder, a sequence of              *)
(* [source_id, file_list] in the order of the JSON object; cvs maps a      *)
(* source id to the profile parsed from its <source_id>_native.md.  A file *)
(* record of files.json may lack the uploaded_at key.                      *)

DataDir(folders, cvs) == [folders |-> folders, cvs |-> cvs]

SourceFiles(source_id, file_list) ==
    [source_id |-> source_id, file_list |-> file_list]

\* Agent.__init__: self.detectors
AgentDetectors ==
    <<"MissingFileDetector", "DuplicatedFailedFileDetector",
      "UnexpectedEmptyFileDetector", "UnexpectedVolumeVariationDetector",
      "LateUploadDetector", "PreviousFileDetector">>

\* detector.detect(files, cv, current_date) for the detector of that class
Detect(detector, fs, profile, date) ==
    CASE detector = "MissingFileDetector" ->
             MissingFileDetector_detect(fs, profile, date)
      [] detector = "DuplicatedFailedFileDetector" ->
             DuplicatedFailedFileDetector_detect(fs, profile, date)
      [] detector = "UnexpectedEmptyFileDetector" ->
             UnexpectedEmptyFileDetector_detect(fs, profile, date)
      [] detector = "UnexpectedVolumeVariationDetector" ->
             UnexpectedVolumeVariationDetector_detect(fs, profile, date)
      [] detector = "LateUploadDetector" ->
             LateUploadDetector_detect(fs, profile, date)
      [] detector = "PreviousFileDetector" ->
             PreviousFileDetector_detect(fs, profile, date)

\* the detector loop with `incidents = detector.detect(...)` for extend
RunDetectors_assign(ds, fs, profile, date) ==
    IF ds = <<>> THEN <<>> ELSE Detect(ds[Len(ds)], fs, profile, date)

\* incidents = []; for detector in ds: incidents.extend(detector.detect(...))
RECURSIVE RunDetectors(_, _, _, _)
RunDetectors(ds, fs, profile, date) ==
    IF ds = <<>> THEN <<>>
    ELSE RunDetectors(SubSeq(ds, 1, Len(ds) - 1), fs, profile, date)
         \o Detect(ds[Len(ds)], fs, profile, date)

\* sum(f.rows for f in files)
RECURSIVE TotalRows(_)
TotalRows(fs) == IF fs = <<>> THEN 0 ELSE Head(fs).rows + TotalRows(Tail(fs))

\* text.startswith(date_str), for date_str "YYYY-MM-DD": the default "" of
\* f.get("uploaded_at", "") starts with no date
StartsWithDate(text, date) == "ymd" \in DOMAIN text /\ text.ymd = date

\* the date filter keeping every record that has an uploaded_at
RECURSIVE DailyFiles_any_date(_, _)
DailyFiles_any_date(file_list, date) ==
    IF file_list = <<>> THEN <<>>
    ELSE (IF "uploaded_at" \in DOMAIN Head(file_list)
          THEN <<Head(file_list)>> ELSE <<>>)
         \o DailyFiles_any_date(Tail(file_list), date)

\* [f for f in file_list if f.get("uploaded_at", "").startswith(date_str)]
RECURSIVE DailyFiles(_, _)
DailyFiles(file_list, date) ==
    IF file_list = <<>> THEN <<>>
    ELSE (IF StartsWithDate(DictGet(Head(file_list), "uploaded_at", EmptyText),
                            date)
          THEN <<Head(file_list)>> ELSE <<>>)
         \o DailyFiles(Tail(file_list), date)

\* the folder whose name starts with date_str: None, or its files.json
TargetFolder(dir, date) ==
    IF date \in DOMAIN dir.folders THEN Some(dir.folders[date]) ELSE None

\* os.path.exists(cv_path) and cv_parser.parse(cv_path)
CvExists(dir, source_id) == source_id \in DOMAIN dir.cvs

\* the profile lookup that reads one fixed profile file for every source
ParseCv_fixed(dir, source_id) ==
    dir.cvs[CHOOSE s \in DOMAIN dir.cvs : TRUE]

ParseCv(dir, source_id) == dir.cvs[source_id]

\* the items left to the source loop after a source with no profile, with
\* break for continue
AfterMissingProfile_break(rest) == <<>>

\* `continue`: the loop goes on with the items after the skipped one
AfterMissingProfile(rest) == rest

-----------------------------------------------------------------------------
(* agent/tools.py: AgentTools.  The object is [scan_results, source_stats]; *)
(* scan_results is a dict in insertion order, a sequence of                *)
(* [source_id, incidents].                                                 *)

AgentTools(results, stats) == [scan_results |-> results, source_stats |-> stats]

\* AgentTools.__init__: self.detectors, in the order of the dict
ToolDetectors ==
    <<"MissingFileDetector", "UnexpectedVolumeVariationDetector",
      "UnexpectedEmptyFileDetector">>

\* d[k] = v on a dict without order
DictSet(d, k, v) == [x \in DOMAIN d \cup {k} |-> IF x = k THEN v ELSE d[x]]

\* d[k] = v on a dict in insertion order: a key already there keeps its place
OrderedSet(d, k, v) ==
    IF \E i \in 1..Len(d) : d[i].source_id = k
    THEN [i \in 1..Len(d) |->
             IF d[i].source_id = k THEN [source_id |-> k, incidents |-> v]
             ELSE d[i]]
    ELSE Append(d, [source_id |-> k, incidents |-> v])

list_sources_for_date(dir, date) ==
    LET target_folder == TargetFolder(dir, date)
    IN  IF target_folder = None THEN <<>>
        ELSE [i \in 1..Len(target_folder[1]) |-> target_folder[1][i].source_id]

\* data.get(source_id, [])
FileListOf(data, source_id) ==
    IF \E i \in 1..Len(data) : data[i].source_id = source_id
    THEN data[CHOOSE i \in 1..Len(data) : data[i].source_id = source_id]
             .file_list
    ELSE <<>>

get_daily_files(dir, date, source_id) ==
    LET target_folder == TargetFolder(dir, date)
    IN  IF target_folder = None THEN <<>>
        ELSE DailyFiles(FileListOf(target_folder[1], source_id), date)

\* the tools object after check_anomalies(date_str, source_id)
check_anomalies(tools, dir, date, source_id) ==
    LET fs == get_daily_files(dir, date, source_id)
        stats == DictSet(tools.source_stats, source_id,
                         [processed_files_count |-> Len(fs),
                          total_rows |-> TotalRows(fs)])
    IN  IF ~CvExists(dir, source_id)
        THEN AgentTools(tools.scan_results, stats)
        ELSE AgentTools(
                 OrderedSet(tools.scan_results, source_id,
                            RunDetectors(ToolDetectors, fs,
                                         ParseCv(dir, source_id),
                                         DayNumber(date))),
                 stats)

RECURSIVE CheckAll(_, _, _, _)
CheckAll(tools, dir, date, sources) ==
    IF sources = <<>> THEN tools
    ELSE CheckAll(check_anomalies(tools, dir, date, Head(sources)), dir, date,
                  Tail(sources))

\* the tools object after scan_day_incidents(date_str)
scan_day_incidents(tools, dir, date) ==
    CheckAll(AgentTools(<<>>, EmptyDict), dir, date,
             list_sources_for_date(dir, date))

-----------------------------------------------------------------------------
(* agent/react_agent.py and the agentic branch of Agent.run *)

\* a ReActAgent made with five steps more
max_steps_30 == 30

\* ReActAgent.__init__: self.max_steps
max_steps == 25

\* the status loop of the agentic branch, lines 64-72
RECURSIVE AgenticStatusFrom(_, _)
AgenticStatusFrom(status, incs) ==
    IF incs = <<>> THEN status
    ELSE IF Head(incs).severity = URGENT THEN URGENT
    ELSE IF Head(incs).severity = NEEDS_ATTENTION /\ status # URGENT
         THEN AgenticStatusFrom(NEEDS_ATTENTION, Tail(incs))
         ELSE AgenticStatusFrom(status, Tail(incs))

\* lines 61-82: the source reports of result["incidents"] and result["stats"]
AgenticSourceReports(results, stats) ==
    [i \in 1..Len(results) |->
        LET st == DictGet(stats, results[i].source_id,
                          [processed_files_count |-> 0, total_rows |-> 0])
        IN  SourceReport(results[i].source_id,
                         AgenticStatusFrom(ALL_GOOD, results[i].incidents),
                         results[i].incidents,
                         st.processed_files_count, st.total_rows)]

\* lines 99-106: the report of the agentic branch
AgenticReport(date, srcs) ==
    ConsolidatedReport(date, srcs, "# AGENTIC ANALYSIS",
        IF \E i \in 1..Len(srcs) : srcs[i].status = URGENT
        THEN URGENT ELSE ALL_GOOD)

-----------------------------------------------------------------------------
(* Inputs of the consolidation stage *)

SourceIds == {"207936", "195385"}
NoCV == SourceCV("Unknown", EmptyDict, EmptyDict, <<>>, EmptyDict)
\* the weekday number of a Monday, as datetime.weekday() numbers the days
Monday == CHOOSE d \in 0..6 : strftime_A(d) = "Monday"

\* One incident of each severity, as the detectors build them.
SampleIncident(sev) ==
    IF sev = URGENT
    THEN Incident(MISSING_FILE, URGENT, "207936", None,
                  [expected_min |-> 1, found |-> 0, cv_min |-> 0, cv_mean |-> 1])
    ELSE IF sev = NEEDS_ATTENTION
    THEN Incident(VOLUME_VARIATION, NEEDS_ATTENTION, "207936", None,
                  [total_files |-> 2, expected_max |-> 1])
    ELSE Incident(PREVIOUS_FILE, ALL_GOOD, "207936", None, [file_date |-> 0])

IncidentLists ==
    {[i \in DOMAIN s |-> SampleIncident(s[i])] :
        s \in SeqsUpTo(IncidentSeverity, MaxIncidents)}

\* Source reports as Agent.run builds them: consolidate_source applied to a
\* source's incident list.
SampleIncidentLists ==
    {[i \in DOMAIN s |-> SampleIncident(s[i])] :
        s \in {<<>>, <<ALL_GOOD>>, <<NEEDS_ATTENTION>>, <<URGENT>>,
               <<NEEDS_ATTENTION, NEEDS_ATTENTION, NEEDS_ATTENTION,
                 NEEDS_ATTENTION>>}}

SampleReports ==
    {consolidate_source(sid, incs, 0, 0) :
        sid \in {"207936"}, incs \in SampleIncidentLists}

-----------------------------------------------------------------------------
(* Specification of consolidate_source: the incident list is any list of   *)
(* at most MaxIncidents incidents; the one step is the call.               *)

InitConsolidate ==
    /\ pc = "start"
    /\ files = <<>>
    /\ cv = NoCV
    /\ current_date = Monday
    /\ incidents \in IncidentLists
    /\ source_report = None
    /\ source_reports = <<>>
    /\ report = None
    /\ error = None
    /\ NoRun

ConsolidateSource ==
    /\ pc = "start"
    /\ \E sid \in SourceIds :
          source_report' =
              Some(consolidate_source(sid, incidents, Len(files), 0))
    /\ pc' = "done"
    /\ UNCHANGED <<files, cv, current_date, incidents, source_reports, report,
                   error, run_vars>>

SpecConsolidate == InitConsolidate /\ [][ConsolidateSource]_vars

(* Specification of generate: the list of source reports is any list of at *)
(* most MaxSources reports; the one step is the call.                      *)

InitGenerate ==
    /\ pc = "start"
    /\ files = <<>>
    /\ cv = NoCV
    /\ current_date = Monday
    /\ incidents = <<>>
    /\ source_report = None
    /\ source_reports \in SeqsUpTo(SampleReports, MaxSources)
    /\ report = None
    /\ error = None
    /\ NoRun

Generate ==
    /\ pc = "start"
    /\ report' = Some(generate(current_date, source_reports))
    /\ pc' = "done"
    /\ UNCHANGED <<files, cv, current_date, incidents, source_report,
                   source_reports, error, run_vars>>

SpecGenerate == InitGenerate /\ [][Generate]_vars

-----------------------------------------------------------------------------
(* Inputs of the detectors *)

\* "_".join(tokens), the tokens being strings
RECURSIVE Join(_)
Join(tokens) ==
    IF Len(tokens) = 0 THEN <<>>
    ELSE IF Len(tokens) = 1 THEN tokens[1]
    ELSE tokens[1] \o <<"_">> \o Join(Tail(tokens))

EntityA == <<"a">>
EntityB == <<"b">>
TokX == <<"x">>
TokS == <<"s">>

\* Filenames {randomId}_{...}_settlement with no, one or two entity tokens,
\* and two near misses: an entity token that starts or ends the filename.
FileNames ==
    {Join(ts) : ts \in {<<TokX, TokS>>, <<TokX, EntityA, TokS>>,
                        <<TokX, EntityB, TokS>>,
                        <<TokX, EntityA, EntityB, TokS>>,
                        <<EntityA, TokS>>, <<TokX, EntityB>>}}

EvalDays == {0, 1}

FileStats(mean, median, mode, min, max) ==
    [mean |-> mean, median |-> median, mode |-> mode, std_dev |-> 0,
     min |-> min, max |-> max]

\* a dict with the one key k, or the empty dict
OneKey(k, v) == [x \in {k} |-> v]
OptionalKey(k, V) == {<<>>} \cup {OneKey(k, v) : v \in V}

EntityDayStats(median_files, median_rows) ==
    [median_files |-> median_files, median_rows |-> median_rows]

\* cv.entity_stats: the entities of names, in every order, each with the
\* stats of DayStats under "Monday" or with no weekday at all
EntityStatsOver(names, DayStats) ==
    {es \in SeqsUpTo([name : names, days : OptionalKey("Monday", DayStats)],
                     Cardinality(names)) :
        \A i, j \in 1..Len(es) : es[i].name = es[j].name => i = j}

MissingBatches ==
    {[i \in DOMAIN ns |-> FileMetadata(ns[i], 10, "processed", FALSE)] :
        ns \in SeqsUpTo(FileNames, MaxMissingFiles)}

MissingProfiles ==
    {SourceCV("207936", expected, <<>>, entities, <<>>) :
        expected \in OptionalKey("Mon",
            {FileStats(mean, median, mode, min, 3) :
                mean \in {1, 2}, median \in {0, 1}, mode \in {0, 1},
                min \in {0, 1, 2}}),
        entities \in EntityStatsOver({EntityA, EntityB},
            {EntityDayStats(mf, 100) : mf \in {0, 1}})}

-----------------------------------------------------------------------------
(* Specification of MissingFileDetector.detect: any batch of at most       *)
(* MaxMissingFiles files, any profile of MissingProfiles, evaluated on a   *)
(* Monday or a Tuesday; the one step is the call.                          *)

InitMissing ==
    /\ pc = "start"
    /\ files \in MissingBatches
    /\ cv \in MissingProfiles
    /\ current_date \in EvalDays
    /\ incidents = <<>>
    /\ source_report = None
    /\ source_reports = <<>>
    /\ report = None
    /\ error = None
    /\ NoRun

DetectMissing ==
    /\ pc = "start"
    /\ incidents' = MissingFileDetector_detect(files, cv, current_date)
    /\ pc' = "done"
    /\ UNCHANGED <<files, cv, current_date, source_report, source_reports,
                   report, error, run_vars>>

SpecMissing == InitMissing /\ [][DetectMissing]_vars

-----------------------------------------------------------------------------
(* Specification of DuplicatedFailedFileDetector.detect: any batch of at   *)
(* most MaxDupFiles files over two filenames, five statuses and both       *)
(* values of the duplicate flag; the one step is the call.                 *)

DupStatuses == {"processed", "STOPPED", "failed", "stopped", "FAILED"}

DupBatches ==
    SeqsUpTo({FileMetadata(Join(ts), 10, st, dup) :
                 ts \in {<<TokX, TokS>>, <<TokX, EntityA, TokS>>},
                 st \in DupStatuses, dup \in BOOLEAN},
             MaxDupFiles)

InitDup ==
    /\ pc = "start"
    /\ files \in DupBatches
    /\ cv = SourceCV("207936", EmptyDict, EmptyDict, <<>>, EmptyDict)
    /\ current_date = Monday
    /\ incidents = <<>>
    /\ source_report = None
    /\ source_reports = <<>>
    /\ report = None
    /\ error = None
    /\ NoRun

DetectDup ==
    /\ pc = "start"
    /\ incidents' = DuplicatedFailedFileDetector_detect(files, cv, current_date)
    /\ pc' = "done"
    /\ UNCHANGED <<files, cv, current_date, source_report, source_reports,
                   report, error, run_vars>>

SpecDup == InitDup /\ [][DetectDup]_vars

-----------------------------------------------------------------------------
(* Specification of UnexpectedEmptyFileDetector.detect: any batch of at    *)
(* most MaxEmptyFiles files, empty or not; an empty-file baseline under    *)
(* "Mon" with max 0, 1 or 2, with no max statistic, with no statistic at   *)
(* all, or no baseline; a Monday or a Tuesday.                             *)

EmptyBatches ==
    SeqsUpTo({FileMetadata(Join(ts), rows, "processed", FALSE) :
                 ts \in {<<TokX, TokS>>, <<TokX, EntityA, TokS>>},
                 rows \in {0, 5}},
             MaxEmptyFiles)

EmptyProfiles ==
    {SourceCV("207936", EmptyDict, EmptyDict, <<>>, empty) :
        empty \in OptionalKey("Mon",
            {EmptyDict, [max |-> 0], [max |-> 1], [min |-> 0],
             [min |-> 0, max |-> 2, mean |-> 1]})}

InitEmpty ==
    /\ pc = "start"
    /\ files \in EmptyBatches
    /\ cv \in EmptyProfiles
    /\ current_date \in EvalDays
    /\ incidents = <<>>
    /\ source_report = None
    /\ source_reports = <<>>
    /\ report = None
    /\ error = None
    /\ NoRun

DetectEmpty ==
    /\ pc = "start"
    /\ incidents' = UnexpectedEmptyFileDetector_detect(files, cv, current_date)
    /\ pc' = "done"
    /\ UNCHANGED <<files, cv, current_date, source_report, source_reports,
                   report, error, run_vars>>

SpecEmpty == InitEmpty /\ [][DetectEmpty]_vars

-----------------------------------------------------------------------------
(* Specification of UnexpectedVolumeVariationDetector.detect: any batch of *)
(* at most MaxVolumeFiles files of VolumeFiles; a file-count entry under   *)
(* "Mon" with max 0, 1 or 2, or none; entities a and b in either order,    *)
(* each with a median-row baseline of 0 or 10 under "Monday" or with no    *)
(* weekday; a Monday or a Tuesday.  Around the median 10 the row counts    *)
(* 0, 1, 30 and 31 are below 0.1 times, at 0.1 times, at 3 times and above *)
(* 3 times the median.                                                     *)

VolumeFiles ==
    {FileMetadata(Join(<<TokX, TokS>>), 31, "processed", FALSE)}
    \cup {FileMetadata(Join(<<TokX, EntityA, TokS>>), rows, "processed", FALSE) :
             rows \in {0, 1, 30, 31}}
    \cup {FileMetadata(Join(<<TokX, EntityA, EntityB, TokS>>), rows,
                       "processed", FALSE) : rows \in {0, 31}}

VolumeBatches == SeqsUpTo(VolumeFiles, MaxVolumeFiles)

VolumeProfiles ==
    {SourceCV("207936", expected, EmptyDict, entities, EmptyDict) :
        expected \in OptionalKey("Mon",
            {FileStats(1, 1, 1, 0, max) : max \in {0, 1, 2}}),
        entities \in EntityStatsOver({EntityA, EntityB},
            {EntityDayStats(1, mr) : mr \in {0, 10}})}

InitVolume ==
    /\ pc = "start"
    /\ files \in VolumeBatches
    /\ cv \in VolumeProfiles
    /\ current_date \in EvalDays
    /\ incidents = <<>>
    /\ source_report = None
    /\ source_reports = <<>>
    /\ report = None
    /\ error = None
    /\ NoRun

DetectVolume ==
    /\ pc = "start"
    /\ incidents' =
           UnexpectedVolumeVariationDetector_detect(files, cv, current_date)
    /\ pc' = "done"
    /\ UNCHANGED <<files, cv, current_date, source_report, source_reports,
                   report, error, run_vars>>

SpecVolume == InitVolume /\ [][DetectVolume]_vars

-----------------------------------------------------------------------------
(* LateUploadDetector.detect(files, cv, current_date)                      *)
(*                                                                         *)
(* The evaluation dates are Monday 2025-09-08 and Tuesday 2025-09-09; the  *)
(* profile has an upload window for Mon at most, so on the Tuesday the     *)
(* window is absent.  The window ends are None, the empty string (the cell *)
(* "08:00:00-"), 09:00:00 (deadline 13:00:00 the same day), 21:00:00       *)
(* (deadline 01:00:00 the next day), and two texts strptime rejects:       *)
(* "09:00" and "25:00:00".  The timestamps lie before, at, one microsecond *)
(* after and well after the deadlines, with and without a UTC offset, and  *)
(* one is not ISO-8601 text.                                               *)

LateMonday == DayNumber(<<2025, 9, 8>>)
LateDays == {LateMonday, LateMonday + 1}

UploadWindow(start, end) == [start |-> start, end |-> end]

WindowEnds ==
    {None, Some(EmptyText), Some(TimeText(9, 0, 0)), Some(TimeText(21, 0, 0)),
     Some(OtherText), Some(TimeText(25, 0, 0))}

LateProfiles ==
    {SourceCV("207936", EmptyDict, w, <<>>, EmptyDict) :
        w \in OptionalKey("Mon", {UploadWindow(None, e) : e \in WindowEnds})}

LateStamps ==
    {IsoText(<<2025, 9, 8>>, <<12, 30, 0>>, 0, Some(0 - 300), TRUE),
     IsoText(<<2025, 9, 8>>, <<13, 0, 0>>, 0, Some(0), TRUE),
     IsoText(<<2025, 9, 8>>, <<13, 0, 0>>, 1, None, TRUE),
     IsoText(<<2025, 9, 8>>, <<14, 5, 0>>, 0, Some(0), TRUE),
     IsoText(<<2025, 9, 9>>, <<0, 30, 0>>, 0, Some(0), TRUE),
     IsoText(<<2025, 9, 9>>, <<1, 30, 0>>, 500000, None, TRUE),
     IsoText(<<2025, 9, 8>>, <<14, 5, 0>>, 0, None, FALSE)}

LateFiles ==
    {FileMetadataAt(name, 10, "processed", FALSE, at) :
        name \in {Join(<<TokX, EntityA>>), Join(<<TokX, EntityB>>)},
        at \in LateStamps}

LateBatches == SeqsUpTo(LateFiles, MaxLateFiles)

InitLate ==
    /\ pc = "start"
    /\ files \in LateBatches
    /\ cv \in LateProfiles
    /\ current_date \in LateDays
    /\ incidents = <<>>
    /\ source_report = None
    /\ source_reports = <<>>
    /\ report = None
    /\ error = None
    /\ NoRun

DetectLate ==
    /\ pc = "start"
    /\ incidents' = LateUploadDetector_detect(files, cv, current_date)
    /\ error' = LateUploadDetector_error(files, cv, current_date)
    /\ pc' = "done"
    /\ UNCHANGED <<files, cv, current_date, source_report, source_reports,
                   report, run_vars>>

SpecLate == InitLate /\ [][DetectLate]_vars

-----------------------------------------------------------------------------
(* PreviousFileDetector.detect(files, cv, current_date)                    *)
(*                                                                         *)
(* The filenames are written from a date by the producer's side of the     *)
(* convention, <prefix>_YYYYMMDD.csv, for dates from a year to a day       *)
(* before and one day after the evaluation dates, for eight digits that    *)
(* are no date, and with the suffix broken in one place each.  The         *)
(* evaluation dates are 2025-09-10 and 2025-03-02, whose third day back is *)
(* in February.                                                            *)

CsvSuffix == <<".", "c", "s", "v">>

Pad(n, width) ==
    [i \in 1..width |->
        DigitChars[((n \div (10 ^ (width - i))) % 10) + 1]]

\* strftime("%Y%m%d") for numbers that need not form a date
Ymd8(ymd) == Pad(ymd[1], 4) \o Pad(ymd[2], 2) \o Pad(ymd[3], 2)

DateName(prefix, ymd) == prefix \o <<"_">> \o Ymd8(ymd) \o CsvSuffix

PreviousEvalDates == {<<2025, 9, 10>>, <<2025, 3, 2>>}

EmbeddedDates ==
    {<<2025, 9, 11>>, <<2025, 9, 10>>, <<2025, 9, 9>>, <<2025, 9, 8>>,
     <<2025, 9, 7>>, <<2025, 8, 31>>, <<2024, 9, 10>>,
     <<2025, 3, 1>>, <<2025, 2, 28>>, <<2025, 2, 27>>}

EmbeddedNonDates ==
    {<<2025, 9, 31>>, <<2025, 13, 1>>, <<2025, 2, 29>>, <<0, 1, 1>>,
     <<2025, 9, 0>>}

\* names the pattern does not match: no suffix at all, another extension,
\* text after the extension, seven digits, nine digits, no underscore
NamesWithoutDate ==
    {Join(<<TokX, EntityA, TokS>>),
     TokX \o <<"_">> \o Ymd8(<<2025, 9, 7>>) \o <<".", "t", "x", "t">>,
     DateName(TokX, <<2025, 9, 7>>) \o <<"x">>,
     TokX \o <<"_">> \o Pad(2025097, 7) \o CsvSuffix,
     TokX \o <<"_", "1">> \o Ymd8(<<2025, 9, 7>>) \o CsvSuffix,
     TokX \o Ymd8(<<2025, 9, 7>>) \o CsvSuffix}

PreviousNames ==
    {DateName(TokX, d) : d \in EmbeddedDates \cup EmbeddedNonDates}
    \cup NamesWithoutDate

PreviousBatches ==
    SeqsUpTo({FileMetadata(name, 10, "processed", FALSE) :
                 name \in PreviousNames}, MaxPreviousFiles)

InitPrevious ==
    /\ pc = "start"
    /\ files \in PreviousBatches
    /\ cv \in {SourceCV(sid, EmptyDict, EmptyDict, <<>>, EmptyDict) :
                  sid \in SourceIds}
    /\ current_date \in {DayNumber(d) : d \in PreviousEvalDates}
    /\ incidents = <<>>
    /\ source_report = None
    /\ source_reports = <<>>
    /\ report = None
    /\ error = None
    /\ NoRun

DetectPrevious ==
    /\ pc = "start"
    /\ incidents' = PreviousFileDetector_detect(files, cv, current_date)
    /\ error' = PreviousFileDetector_error(files, cv, current_date)
    /\ pc' = "done"
    /\ UNCHANGED <<files, cv, current_date, source_report, source_reports,
                   report, run_vars>>

SpecPrevious == InitPrevious /\ [][DetectPrevious]_vars

-----------------------------------------------------------------------------
(* The detector loop of one source, Agent.run lines 153-162, for the six   *)
(* detectors in every order.                                               *)
(*                                                                         *)
(* The date is Monday 2025-09-08.  The full profile expects one file (min  *)
(* 0, max 1), entity a with a median of 10 rows, and a window ending       *)
(* 09:00:00; the bare profile has no table at all.  The files are: a       *)
(* failed, empty, late file of entity a; a file dated a week back; a late  *)
(* file of no entity.                                                      *)

Orders(seq) ==
    {p \in [1..Len(seq) -> {seq[i] : i \in 1..Len(seq)}] :
        \A i, j \in 1..Len(seq) : p[i] = p[j] => i = j}

LateStamp == IsoText(<<2025, 9, 8>>, <<14, 5, 0>>, 0, Some(0), TRUE)

DetectFiles ==
    {FileMetadataAt(Join(<<TokX, EntityA, TokS>>), 0, "failed", FALSE,
                    LateStamp),
     FileMetadata(DateName(TokX, <<2025, 9, 1>>), 10, "processed", FALSE),
     FileMetadataAt(Join(<<TokX, TokS>>), 10, "processed", FALSE, LateStamp)}

DetectBatches == SeqsUpTo(DetectFiles, MaxDetectFiles)

FullProfile(sid) ==
    SourceCV(sid,
             OneKey("Mon", FileStats(1, 1, 1, 0, 1)),
             OneKey("Mon", UploadWindow(None, Some(TimeText(9, 0, 0)))),
             <<[name |-> EntityA,
                days |-> OneKey("Monday", EntityDayStats(1, 10))]>>,
             EmptyDict)

BareProfile(sid) == SourceCV(sid, EmptyDict, EmptyDict, <<>>, EmptyDict)

InitDetectors ==
    /\ pc = "start"
    /\ files \in DetectBatches
    /\ cv \in {FullProfile("207936"), BareProfile("207936")}
    /\ current_date = LateMonday
    /\ incidents = <<>>
    /\ source_report = None
    /\ source_reports = <<>>
    /\ report = None
    /\ error = None
    /\ detectors \in Orders(AgentDetectors)
    /\ data_dir = None
    /\ date_str = None
    /\ agent_mode = "pipeline"
    /\ todo = <<>>
    /\ scan_results = <<>>
    /\ source_stats = EmptyDict
    /\ step = 0
    /\ llm_calls = 0
    /\ summary = None
    /\ content = None

RunDetectorLoop ==
    /\ pc = "start"
    /\ incidents' = RunDetectors(detectors, files, cv, current_date)
    /\ source_report' =
           Some(consolidate_source(cv.source_id, incidents', Len(files),
                                   TotalRows(files)))
    /\ pc' = "done"
    /\ UNCHANGED <<files, cv, current_date, source_reports, report, error,
                   run_vars>>

SpecDetectors == InitDetectors /\ [][RunDetectorLoop]_vars

-----------------------------------------------------------------------------
(* Agent.run(date_str) in pipeline mode, one step per iteration of the     *)
(* source loop.                                                            *)
(*                                                                         *)
(* The data directory has one day folder, for Monday 2025-09-08, and the   *)
(* run is asked for that date or for 2025-09-09, which has no folder.      *)
(* files.json lists up to MaxRunSources sources in every order; each has   *)
(* one of five file lists, which mix records of the date, records of the   *)
(* next day, a record with no uploaded_at and a file of ten times the      *)
(* median rows, and each has the full profile, the bare profile or no      *)
(* profile document.  The profile of a source with the file of ten times  *)
(* the median may also carry no source id or another one, and a source     *)
(* with a file uploaded just before midnight has a window that ends at     *)
(* 20:00:00 or 23:00:00.                                                   *)

RunDay == <<2025, 9, 8>>
RunDates == {RunDay, <<2025, 9, 9>>}

RunSourceIds == SourceIds \cup {"228036"}

NextDayStamp == IsoText(<<2025, 9, 9>>, <<8, 0, 0>>, 0, Some(0), TRUE)

\* a record of files.json without the uploaded_at key
RecordWithoutStamp(name, rows, st, dup) ==
    [filename |-> name, rows |-> rows, status |-> st, is_duplicated |-> dup]

RegularFileList ==
    <<FileMetadata(Join(<<TokX, EntityA, TokS>>), 10, "processed", FALSE)>>

LateFileList ==
    <<FileMetadataAt(Join(<<TokX, EntityA, TokS>>), 5, "processed", FALSE,
                     NextDayStamp),
      FileMetadataAt(Join(<<TokX, TokS>>), 0, "failed", FALSE, LateStamp)>>

MixedFileList ==
    <<RecordWithoutStamp(Join(<<TokX, TokS>>), 7, "processed", FALSE),
      FileMetadata(Join(<<TokX, TokS>>), 10, "processed", FALSE),
      FileMetadataAt(Join(<<TokX, EntityA, TokS>>), 5, "STOPPED", FALSE,
                     NextDayStamp)>>

\* a file of entity a with ten times the median rows of the full profile
SurgeFile == FileMetadata(Join(<<TokX, EntityA, TokS>>), 100, "processed", FALSE)
SurgeFileList == <<SurgeFile>>
ManySurgeFileList == <<SurgeFile, SurgeFile, SurgeFile, SurgeFile>>

RunFileLists ==
    {<<>>, RegularFileList, LateFileList, MixedFileList, SurgeFileList}

\* a file uploaded in the last microsecond of the day of the run
EveningStamp == IsoText(RunDay, <<23, 59, 59>>, 999999, Some(0), TRUE)
EveningFileList ==
    <<FileMetadataAt(Join(<<TokX, TokS>>), 10, "processed", FALSE,
                     EveningStamp)>>

\* the full profile with an upload window that ends at the given time
EveningProfile(sid, end) ==
    SourceCV(sid,
             OneKey("Mon", FileStats(1, 1, 1, 0, 1)),
             OneKey("Mon", UploadWindow(None, Some(end))),
             <<[name |-> EntityA,
                days |-> OneKey("Monday", EntityDayStats(1, 10))]>>,
             EmptyDict)

\* The profile parse returns for the document of a source: the full or the
\* bare profile; the full profile of a document with no "Resource ID" field
\* ("unlabelled") or with the id of another source ("other"); the full
\* profile with a window that ends at 20:00:00 or at 23:00:00.
OtherSourceId == "999999"
ProfileOf(kind, sid) ==
    CASE kind = "full" -> FullProfile(sid)
      [] kind = "bare" -> BareProfile(sid)
      [] kind = "unlabelled" -> FullProfile("Unknown")
      [] kind = "other" -> FullProfile(OtherSourceId)
      [] kind = "evening" -> EveningProfile(sid, TimeText(20, 0, 0))
      [] kind = "night" -> EveningProfile(sid, TimeText(23, 0, 0))

SourceCases ==
    [source_id : RunSourceIds, file_list : RunFileLists,
     profile : {"full", "bare", "none"}]
    \cup [source_id : RunSourceIds, file_list : {SurgeFileList},
          profile : {"unlabelled", "other"}]
    \cup [source_id : RunSourceIds, file_list : {EveningFileList},
          profile : {"evening", "night"}]

RunCases ==
    {cs \in SeqsUpTo(SourceCases, MaxRunSources) :
        \A i, j \in 1..Len(cs) : cs[i].source_id = cs[j].source_id => i = j}

DirOf(cs) ==
    DataDir(OneKey(RunDay,
                   [i \in 1..Len(cs) |->
                       SourceFiles(cs[i].source_id, cs[i].file_list)]),
            [sid \in {cs[i].source_id :
                         i \in {k \in 1..Len(cs) : cs[k].profile # "none"}} |->
                LET c == CHOOSE i \in 1..Len(cs) : cs[i].source_id = sid
                IN  ProfileOf(cs[c].profile, sid)])

InitPipeline ==
    /\ pc = "start"
    /\ files = <<>>
    /\ cv = NoCV
    /\ current_date = 0
    /\ incidents = <<>>
    /\ source_report = None
    /\ source_reports = <<>>
    /\ report = None
    /\ error = None
    /\ detectors = AgentDetectors
    /\ data_dir \in {DirOf(cs) : cs \in RunCases}
    /\ date_str \in RunDates
    /\ agent_mode = "pipeline"
    /\ todo = <<>>
    /\ scan_results = <<>>
    /\ source_stats = EmptyDict
    /\ step = 0
    /\ llm_calls = 0
    /\ summary = None
    /\ content = None

\* lines 107-118: no folder of the data directory starts with date_str
RaiseNotFound ==
    /\ pc = "start"
    /\ agent_mode = "pipeline"
    /\ TargetFolder(data_dir, date_str) = None
    /\ error' = Some("FileNotFoundError")
    /\ pc' = "raised"
    /\ UNCHANGED <<files, cv, current_date, incidents, source_report,
                   source_reports, report, run_vars>>

\* lines 107-130: the folder is found, files.json is loaded, the date parsed
LoadDay ==
    /\ pc = "start"
    /\ agent_mode = "pipeline"
    /\ TargetFolder(data_dir, date_str) # None
    /\ todo' = TargetFolder(data_dir, date_str)[1]
    /\ source_reports' = <<>>
    /\ current_date' = DayNumber(date_str)
    /\ pc' = "loop"
    /\ UNCHANGED <<files, cv, incidents, source_report, report, error,
                   detectors, data_dir, date_str, agent_mode, scan_results,
                   source_stats, step, llm_calls, summary,
                   content>>

\* lines 132-148: an iteration for a source with no profile document
SkipSource ==
    /\ pc = "loop"
    /\ todo # <<>>
    /\ ~CvExists(data_dir, Head(todo).source_id)
    /\ files' = DailyFiles(Head(todo).file_list, date_str)
    /\ todo' = AfterMissingProfile(Tail(todo))
    /\ UNCHANGED <<pc, cv, current_date, incidents, source_report,
                   source_reports, report, error, detectors, data_dir,
                   date_str, agent_mode, scan_results, source_stats, step,
                   llm_calls, summary, content>>

\* lines 132-163: an iteration for a source with a profile document
ProcessSource ==
    /\ pc = "loop"
    /\ todo # <<>>
    /\ CvExists(data_dir, Head(todo).source_id)
    /\ files' = DailyFiles(Head(todo).file_list, date_str)
    /\ cv' = ParseCv(data_dir, Head(todo).source_id)
    /\ incidents' = RunDetectors(detectors, files', cv', current_date)
    /\ source_report' =
           Some(consolidate_source(Head(todo).source_id, incidents',
                                   Len(files'), TotalRows(files')))
    /\ source_reports' = Append(source_reports, source_report'[1])
    /\ todo' = Tail(todo)
    /\ UNCHANGED <<pc, current_date, report, error, detectors, data_dir,
                   date_str, agent_mode, scan_results, source_stats, step,
                   llm_calls, summary, content>>

\* lines 165-173: the loop is over (use_llm is off: no validation text)
GenerateReport ==
    /\ pc = "loop"
    /\ todo = <<>>
    /\ report' = Some(generate(date_str, source_reports))
    /\ pc' = "returned"
    /\ UNCHANGED <<files, cv, current_date, incidents, source_report,
                   source_reports, error, run_vars>>

NextPipeline ==
    \/ RaiseNotFound
    \/ LoadDay
    \/ SkipSource
    \/ ProcessSource
    \/ GenerateReport

SpecPipeline == InitPipeline /\ [][NextPipeline]_vars

-----------------------------------------------------------------------------
(* Agent.run(date_str) in agentic mode, the mode of main.py's request when *)
(* it names none.  One step per iteration of ReActAgent.run's loop: the    *)
(* language model's output is any of the outputs the loop tells apart (an  *)
(* action that calls scan_day_incidents, one that calls check_anomalies    *)
(* with a date and a source id of its choosing, any other action or no     *)
(* action, and a finish or final answer).  The providers return their      *)
(* failures as text, which is an output with no action.                    *)

\* the text the language model hands to finish or puts after "Final Answer:"
FinalAnswer == "final answer"
\* lines 122-127: the summary of the result when the loop runs out of steps
MaxStepsSummary == "Agent stopped (max steps reached)."

AgenticDirs ==
    {DirOf(<<>>),
     DirOf(<<[source_id |-> "207936", file_list |-> <<>>, profile |-> "full"]>>),
     DirOf(<<[source_id |-> "207936", file_list |-> MixedFileList,
              profile |-> "full"],
             [source_id |-> "195385", file_list |-> LateFileList,
              profile |-> "none"]>>),
     DirOf(<<[source_id |-> "195385", file_list |-> LateFileList,
              profile |-> "bare"],
             [source_id |-> "207936", file_list |-> <<>>, profile |-> "full"]>>),
     DirOf(<<[source_id |-> "207936", file_list |-> SurgeFileList,
              profile |-> "full"],
             [source_id |-> "195385", file_list |-> RegularFileList,
              profile |-> "bare"]>>),
     DirOf(<<[source_id |-> "207936", file_list |-> ManySurgeFileList,
              profile |-> "full"]>>)}

InitAgentic ==
    /\ pc = "start"
    /\ files = <<>>
    /\ cv = NoCV
    /\ current_date = 0
    /\ incidents = <<>>
    /\ source_report = None
    /\ source_reports = <<>>
    /\ report = None
    /\ error = None
    /\ detectors = AgentDetectors
    /\ data_dir \in AgenticDirs
    /\ date_str \in RunDates
    /\ agent_mode = "agentic"
    /\ todo = <<>>
    /\ scan_results = <<>>
    /\ source_stats = EmptyDict
    /\ step = 0
    /\ llm_calls = 0
    /\ summary = None
    /\ content = None

agentic_unchanged ==
    <<files, cv, current_date, incidents, source_report, source_reports,
      report, error, detectors, data_dir, date_str, agent_mode, todo, content>>

\* core.py 55-58, react_agent.py 15-52: the ReActAgent and its tools are made
StartReAct ==
    /\ pc = "start"
    /\ agent_mode = "agentic"
    /\ scan_results' = <<>>
    /\ source_stats' = EmptyDict
    /\ step' = 0
    /\ llm_calls' = 0
    /\ summary' = None
    /\ pc' = "react"
    /\ UNCHANGED agentic_unchanged

\* an iteration whose action is scan_day_incidents(...)
ReActScan ==
    /\ pc = "react"
    /\ step < max_steps
    /\ LET tools == scan_day_incidents(AgentTools(scan_results, source_stats),
                                       data_dir, date_str)
       IN  /\ scan_results' = tools.scan_results
           /\ source_stats' = tools.source_stats
    /\ step' = step + 1
    /\ llm_calls' = llm_calls + 1
    /\ UNCHANGED <<pc, summary, agentic_unchanged>>

\* an iteration whose action is check_anomalies(d, source_id) or
\* check_anomalies(source_id), which takes the date of the run
ReActCheck ==
    /\ pc = "react"
    /\ step < max_steps
    /\ \E d \in RunDates, source_id \in RunSourceIds :
           LET tools == check_anomalies(AgentTools(scan_results, source_stats),
                                        data_dir, d, source_id)
           IN  /\ scan_results' = tools.scan_results
               /\ source_stats' = tools.source_stats
    /\ step' = step + 1
    /\ llm_calls' = llm_calls + 1
    /\ UNCHANGED <<pc, summary, agentic_unchanged>>

\* an iteration with another tool, an unknown tool or no action at all
ReActOther ==
    /\ pc = "react"
    /\ step < max_steps
    /\ step' = step + 1
    /\ llm_calls' = llm_calls + 1
    /\ UNCHANGED <<pc, summary, scan_results, source_stats, agentic_unchanged>>

\* an iteration whose output is finish(...) or holds "Final Answer:"
ReActFinish ==
    /\ pc = "react"
    /\ step < max_steps
    /\ llm_calls' = llm_calls + 1
    /\ summary' = Some(FinalAnswer)
    /\ pc' = "result"
    /\ UNCHANGED <<scan_results, source_stats, step, agentic_unchanged>>

\* the loop ends at max_steps
ReActMaxSteps ==
    /\ pc = "react"
    /\ step = max_steps
    /\ summary' = Some(MaxStepsSummary)
    /\ pc' = "result"
    /\ UNCHANGED <<scan_results, source_stats, step, llm_calls,
                   agentic_unchanged>>

\* core.py 60-106: the result becomes the ConsolidatedReport
ReturnAgenticReport ==
    /\ pc = "result"
    /\ source_reports' = AgenticSourceReports(scan_results, source_stats)
    /\ report' = Some(AgenticReport(date_str, source_reports'))
    /\ pc' = "returned"
    /\ UNCHANGED <<files, cv, current_date, incidents, source_report, error,
                   run_vars>>

NextAgentic ==
    \/ StartReAct
    \/ ReActScan
    \/ ReActCheck
    \/ ReActOther
    \/ ReActFinish
    \/ ReActMaxSteps
    \/ ReturnAgenticReport

SpecAgentic == InitAgentic /\ [][NextAgentic]_vars

\* one iteration of the while loop of ReActAgent.run, whatever the language
\* model answered
ReActIteration ==
    \/ ReActOther
    \/ ReActFinish
    \/ ReActScan
    \/ ReActCheck

\* Every call of the language model and of a tool returns (_execute_tool
\* catches every exception), so the run always takes its next step: it enters
\* the loop, takes the pending iteration, leaves the loop and returns.
SpecAgenticFair ==
    /\ SpecAgentic
    /\ WF_vars(StartReAct)
    /\ WF_vars(ReActIteration)
    /\ WF_vars(ReActMaxSteps)
    /\ WF_vars(ReturnAgenticReport)

-----------------------------------------------------------------------------
(* agent/parsers.py: CVParser.  A profile document is the sequence of its  *)
(* lines, each a sequence of one-character strings and each ended by a     *)
(* newline; the string methods the parser calls (split, strip, replace,    *)
(* in, startswith, isdigit, lower) are computed on the characters.  A      *)
(* float is the decimal [digits, places] of its text, digits / 10^places   *)
(* with no trailing zero, which is one to one with the binary64 values of  *)
(* the short texts used here; min and max are ints.  The keys of the       *)
(* parsed mappings are the texts of the cells.                             *)

\* s.startswith(p)
StartsWith(s, p) == Len(s) >= Len(p) /\ SubSeq(s, 1, Len(p)) = p

\* s.find(pat) + 1: the position of the first occurrence, 0 when there is none
Find(s, pat) ==
    LET at == {i \in 1..(Len(s) - Len(pat) + 1) :
                  SubSeq(s, i, i + Len(pat) - 1) = pat}
    IN  IF at = {} THEN 0 ELSE CHOOSE i \in at : \A j \in at : i <= j

\* s.split(sep)
RECURSIVE Split(_, _)
Split(s, sep) ==
    LET i == Find(s, sep)
    IN  IF i = 0 THEN <<s>>
        ELSE <<SubSeq(s, 1, i - 1)>>
             \o Split(SubSeq(s, i + Len(sep), Len(s)), sep)

\* s.split(sep, 1)
SplitOnce(s, sep) ==
    LET i == Find(s, sep)
    IN  IF i = 0 THEN <<s>>
        ELSE <<SubSeq(s, 1, i - 1), SubSeq(s, i + Len(sep), Len(s))>>

\* s.strip(), for the whitespace of the documents, the space
RECURSIVE Strip(_)
Strip(s) ==
    IF s = <<>> THEN s
    ELSE IF s[1] = " " THEN Strip(Tail(s))
    ELSE IF s[Len(s)] = " " THEN Strip(SubSeq(s, 1, Len(s) - 1))
    ELSE s

\* s.replace(old, new)
RECURSIVE Replace(_, _, _)
Replace(s, old, new) ==
    LET i == Find(s, old)
    IN  IF i = 0 THEN s
        ELSE SubSeq(s, 1, i - 1) \o new
             \o Replace(SubSeq(s, i + Len(old), Len(s)), old, new)

\* s.replace(old, new, 1)
ReplaceFirst(s, old, new) ==
    LET i == Find(s, old)
    IN  IF i = 0 THEN s
        ELSE SubSeq(s, 1, i - 1) \o new \o SubSeq(s, i + Len(old), Len(s))

UpperChars == <<"A", "B", "C", "D", "E", "F", "G", "H", "I", "J", "K", "L", "M", "N", "O", "P", "Q", "R", "S", "T", "U", "V", "W", "X", "Y", "Z">>
LowerChars == <<"a", "b", "c", "d", "e", "f", "g", "h", "i", "j", "k", "l", "m", "n", "o", "p", "q", "r", "s", "t", "u", "v", "w", "x", "y", "z">>
\* s.lower()
Lower(s) ==
    [i \in 1..Len(s) |->
        IF \E k \in 1..26 : UpperChars[k] = s[i]
        THEN LowerChars[CHOOSE k \in 1..26 : UpperChars[k] = s[i]]
        ELSE s[i]]

\* A character str.isdigit accepts and int and float reject: a digit that is
\* not a decimal digit, such as the superscript two
SuperscriptTwo == "sup2"
\* s.isdigit()
isdigit(s) ==
    /\ s # <<>>
    /\ \A i \in 1..Len(s) : IsDigit(s[i]) \/ s[i] = SuperscriptTwo
\* s.replace('.', '', 1).isdigit(): the guard of every float(...) of a cell
IsNumberText(s) == isdigit(ReplaceFirst(s, <<".">>, <<>>))
\* the text is of decimal digits and at most one point, with a digit
IsDecimalText(s) ==
    LET t == ReplaceFirst(s, <<".">>, <<>>)
    IN  t # <<>> /\ \A i \in 1..Len(t) : IsDigit(t[i])

\* the decimal digits / 10^places, without trailing zeros
RECURSIVE Decimal(_, _)
Decimal(digits, places) ==
    IF places > 0 /\ digits % 10 = 0 THEN Decimal(digits \div 10, places - 1)
    ELSE [digits |-> digits, places |-> places]
\* the 0 that stands for a cell that is no number
Zero == Decimal(0, 0)

\* float(s), for a text that float accepts
float(s) ==
    LET i == Find(s, <<".">>)
    IN  IF i = 0 THEN Decimal(ParseDigits(s), 0)
        ELSE Decimal(ParseDigits(SubSeq(s, 1, i - 1) \o
                                 SubSeq(s, i + 1, Len(s))),
                     Len(s) - i)
\* float(s) raises ValueError
float_raises(s) == ~IsDecimalText(s)
\* int(s) raises ValueError, for a text that passed isdigit
int_raises(s) == \E i \in 1..Len(s) : ~IsDigit(s[i])

\* float(c) if c.replace('.', '', 1).isdigit() else 0
FloatOrZero(c) == IF IsNumberText(c) THEN float(c) ELSE Zero
FloatOrZero_raises(c) == IsNumberText(c) /\ float_raises(c)
\* int(c) if c.isdigit() else 0
IntOrZero(c) == IF isdigit(c) THEN ParseDigits(c) ELSE 0
IntOrZero_raises(c) == isdigit(c) /\ int_raises(c)

\* the headings and the marks of the header rows
FileStatsHeading == <<"F", "i", "l", "e", " ", "P", "r", "o", "c", "e", "s", "s", "i", "n", "g", " ", "S", "t", "a", "t", "i", "s", "t", "i", "c", "s", " ", "b", "y", " ", "D", "a", "y">>
UploadWindowHeading == <<"U", "p", "l", "o", "a", "d", " ", "S", "c", "h", "e", "d", "u", "l", "e", " ", "P", "a", "t", "t", "e", "r", "n", "s", " ", "b", "y", " ", "D", "a", "y">>
EntityStatsHeading == <<"E", "n", "t", "i", "t", "y", " ", "S", "t", "a", "t", "i", "s", "t", "i", "c", "s", " ", "b", "y", " ", "D", "a", "y", " ", "o", "f", " ", "W", "e", "e", "k">>
EmptyStatsHeading == <<"D", "a", "y", "-", "o", "f", "-", "W", "e", "e", "k", " ", "S", "u", "m", "m", "a", "r", "y">>
MeanFilesMark == <<"M", "e", "a", "n", " ", "F", "i", "l", "e", "s">>
UploadHourMark == <<"U", "p", "l", "o", "a", "d", " ", "H", "o", "u", "r">>
EntityMark == <<"E", "n", "t", "i", "t", "y">>
MondayMark == <<"M", "o", "n", "d", "a", "y">>
RowStatisticsMark == <<"R", "o", "w", " ", "S", "t", "a", "t", "i", "s", "t", "i", "c", "s">>
Dashes == <<"-", "-", "-">>

\* re.search(heading + r'.*?\n(\|.*\|\n)+', content, re.DOTALL), then
\* group(0).strip().split('\n'): None when there is no match.  With DOTALL
\* the lazy .*? runs from the first occurrence of the heading to the first
\* line that starts with '|', and the greedy .* from there to the last
\* "|\n" of the document: the rows are the rest of the heading's line and
\* every line after it up to the last line that ends with '|'.
TableRows(lines, heading) ==
    LET heads == {i \in 1..Len(lines) : Contains(heading, lines[i])}
        h == CHOOSE i \in heads : \A j \in heads : i <= j
        closes(i) == {j \in i..Len(lines) :
                         /\ lines[j] # <<>>
                         /\ lines[j][Len(lines[j])] = "|"
                         /\ (j > i \/ Len(lines[i]) >= 2)}
        opens == {i \in (h + 1)..Len(lines) :
                     /\ lines[i] # <<>>
                     /\ lines[i][1] = "|"
                     /\ closes(i) # {}}
        first == CHOOSE i \in opens : \A j \in opens : i <= j
        last == CHOOSE j \in closes(first) : \A k \in closes(first) : k <= j
    IN  IF heads = {} THEN None
        ELSE IF opens = {} THEN None
        ELSE Some(<<SubSeq(lines[h], Find(lines[h], heading), Len(lines[h]))>>
                  \o SubSeq(lines, h + 1, last))

\* [r for r in rows if r.startswith('|') and '---' not in r and mark not in r]
DataRows(rows, mark) ==
    SelectSeq(rows, LAMBDA r : /\ StartsWith(r, <<"|">>)
                               /\ ~Contains(Dashes, r)
                               /\ ~Contains(mark, r))

\* [c.strip() for c in row.split('|') if c.strip()]
Cols(row) ==
    SelectSeq([i \in 1..Len(Split(row, <<"|">>)) |->
                  Strip(Split(row, <<"|">>)[i])],
              LAMBDA c : c # <<>>)

\* the longest prefix of s made of decimal digits: what (\d+) takes
RECURSIVE LeadingDigits(_)
LeadingDigits(s) ==
    IF s # <<>> /\ IsDigit(s[1]) THEN <<s[1]>> \o LeadingDigits(Tail(s))
    ELSE <<>>
\* the longest prefix of s made of decimal digits and points: ([\d\.]+)
RECURSIVE LeadingNumberChars(_)
LeadingNumberChars(s) ==
    IF s # <<>> /\ (IsDigit(s[1]) \/ s[1] = ".")
    THEN <<s[1]>> \o LeadingNumberChars(Tail(s))
    ELSE <<>>

\* the texts that follow the occurrences of label in s, leftmost first
RECURSIVE AfterLabel(_, _)
AfterLabel(s, label) ==
    LET i == Find(s, label)
    IN  IF i = 0 THEN <<>>
        ELSE <<SubSeq(s, i + Len(label), Len(s))>>
             \o AfterLabel(SubSeq(s, i + 1, Len(s)), label)

\* re.search(label + r'(\d+)', s): group(1) of the leftmost match
SearchDigits(s, label) ==
    LET found == SelectSeq(AfterLabel(s, label),
                           LAMBDA t : LeadingDigits(t) # <<>>)
    IN  IF found = <<>> THEN None ELSE Some(LeadingDigits(found[1]))
\* re.search(label + r'([\d\.]+)', s): group(1) of the leftmost match
SearchNumber(s, label) ==
    LET found == SelectSeq(AfterLabel(s, label),
                           LAMBDA t : LeadingNumberChars(t) # <<>>)
    IN  IF found = <<>> THEN None ELSE Some(LeadingNumberChars(found[1]))

ResourceIdLabel == <<"*", "*", "R", "e", "s", "o", "u", "r", "c", "e", " ", "I", "D", "*", "*", ":", " ">>
GenericStructureLabel == <<"G", "e", "n", "e", "r", "i", "c", " ", "s", "t", "r", "u", "c", "t", "u", "r", "e">>
MedianFilesLabel == <<"M", "e", "d", "i", "a", "n", " ", "F", "i", "l", "e", "s", ":", " ">>
MedianRowsLabel == <<"M", "e", "d", "i", "a", "n", " ", "R", "o", "w", "s", ":", " ">>
Unknown == <<"U", "n", "k", "n", "o", "w", "n">>

\* lines 27-29; the pattern holds no newline, so a match lies in one line
extract_source_id(lines) ==
    LET found == SelectSeq(lines,
                           LAMBDA l : SearchDigits(l, ResourceIdLabel) # None)
    IN  IF found = <<>> THEN Unknown
        ELSE SearchDigits(found[1], ResourceIdLabel)[1]

\* the text between the two backquotes that follow the label and \s*
BackquotedAfter(t) ==
    LET u == Strip(t)
        close == IF u = <<>> THEN 0 ELSE Find(Tail(u), <<"backquote">>)
    IN  IF u # <<>> /\ u[1] = "backquote" /\ close >= 2
        THEN Some(SubSeq(u, 2, close))
        ELSE None
\* lines 80-85, for documents whose backquoted spans lie in one line
extract_filename_patterns(lines) ==
    LET spans(l) == SelectSeq([i \in 1..Len(AfterLabel(l, GenericStructureLabel))
                                 |-> BackquotedAfter(
                                         AfterLabel(l, GenericStructureLabel)[i])],
                              LAMBDA g : g # None)
        found == SelectSeq(lines, LAMBDA l : spans(l) # <<>>)
    IN  IF found = <<>> THEN <<>> ELSE <<spans(found[1])[1][1]>>

\* lines 45-52: the entry of a row of the file-count table
FileStatsOf(cols) ==
    [mean |-> FloatOrZero(cols[2]), median |-> FloatOrZero(cols[3]),
     mode |-> FloatOrZero(cols[4]), min |-> IntOrZero(cols[6]),
     max |-> IntOrZero(cols[7]), std_dev |-> FloatOrZero(cols[5])]
FileStatsOf_raises(cols) ==
    \/ \E i \in 2..5 : FloatOrZero_raises(cols[i])
    \/ \E i \in 6..7 : IntOrZero_raises(cols[i])

\* lines 41-52: the loop over the data rows
RECURSIVE FileStatsLoop(_, _)
FileStatsLoop(data_rows, stats) ==
    IF data_rows = <<>> THEN stats
    ELSE LET cols == Cols(Head(data_rows))
         IN  FileStatsLoop(Tail(data_rows),
                           IF Len(cols) >= 7
                           THEN DictSet(stats, cols[1], FileStatsOf(cols))
                           ELSE stats)

\* lines 31-53
extract_file_stats(lines) ==
    LET rows == TableRows(lines, FileStatsHeading)
    IN  IF rows = None THEN EmptyDict
        ELSE FileStatsLoop(DataRows(rows[1], MeanFilesMark), EmptyDict)
\* lines 46-51: a float(...) or an int(...) of a row raises ValueError
extract_file_stats_error(lines) ==
    LET rows == TableRows(lines, FileStatsHeading)
        data_rows == DataRows(rows[1], MeanFilesMark)
    IN  IF rows # None /\ \E i \in 1..Len(data_rows) :
                              /\ Len(Cols(data_rows[i])) >= 7
                              /\ FileStatsOf_raises(Cols(data_rows[i]))
        THEN Some("ValueError")
        ELSE None

EnDash == "endash"
Utc == <<" ", "U", "T", "C">>
\* lines 70-77: the window of a cell; start, end = ... takes two parts
WindowOf(window_str) ==
    LET sep == IF Contains(<<EnDash>>, window_str) THEN <<EnDash>> ELSE <<"-">>
        parts == Split(window_str, sep)
    IN  IF Contains(sep, window_str)
        THEN [start |-> Some(Replace(Strip(parts[1]), Utc, <<>>)),
              end |-> Some(Replace(Strip(parts[2]), Utc, <<>>))]
        ELSE [start |-> None, end |-> None]
\* lines 71 and 74: the unpacking raises ValueError unless there are two parts
WindowOf_raises(window_str) ==
    \/ /\ Contains(<<EnDash>>, window_str)
       /\ Len(Split(window_str, <<EnDash>>)) # 2
    \/ /\ ~Contains(<<EnDash>>, window_str)
       /\ Contains(<<"-">>, window_str)
       /\ Len(Split(window_str, <<"-">>)) # 2

\* lines 64-77: the loop over the data rows
RECURSIVE UploadWindowLoop(_, _)
UploadWindowLoop(data_rows, windows) ==
    IF data_rows = <<>> THEN windows
    ELSE LET cols == Cols(Head(data_rows))
         IN  UploadWindowLoop(Tail(data_rows),
                              IF Len(cols) >= 6
                              THEN DictSet(windows, cols[1], WindowOf(cols[6]))
                              ELSE windows)

\* lines 55-78
extract_upload_window(lines) ==
    LET rows == TableRows(lines, UploadWindowHeading)
    IN  IF rows = None THEN EmptyDict
        ELSE UploadWindowLoop(DataRows(rows[1], UploadHourMark), EmptyDict)
extract_upload_window_error(lines) ==
    LET rows == TableRows(lines, UploadWindowHeading)
        data_rows == DataRows(rows[1], UploadHourMark)
    IN  IF rows # None /\ \E i \in 1..Len(data_rows) :
                              /\ Len(Cols(data_rows[i])) >= 6
                              /\ WindowOf_raises(Cols(data_rows[i])[6])
        THEN Some("ValueError")
        ELSE None

\* lines 118-124: the entry of one cell of the entity table
EntityCellOf(day_stat) ==
    LET file_match == SearchNumber(day_stat, MedianFilesLabel)
        row_match == SearchNumber(day_stat, MedianRowsLabel)
    IN  EntityDayStats(IF file_match # None THEN float(file_match[1]) ELSE Zero,
                       IF row_match # None THEN float(row_match[1]) ELSE Zero)
\* lines 122-123: float(match.group(1)) raises ValueError
EntityCellOf_raises(day_stat) ==
    LET file_match == SearchNumber(day_stat, MedianFilesLabel)
        row_match == SearchNumber(day_stat, MedianRowsLabel)
    IN  \/ file_match # None /\ float_raises(file_match[1])
        \/ row_match # None /\ float_raises(row_match[1])

\* lines 114-124: the cells of a row after the first, under the header's days
RECURSIVE EntityDaysLoop(_, _, _)
EntityDaysLoop(cells, days, stats) ==
    IF cells = <<>> \/ days = <<>> THEN stats
    ELSE EntityDaysLoop(Tail(cells), Tail(days),
                        DictSet(stats, Head(days), EntityCellOf(Head(cells))))
EntityRow_raises(cols, days) ==
    \E i \in 2..Len(cols) : i - 1 <= Len(days) /\ EntityCellOf_raises(cols[i])

\* stats[entity] = ...: a key the dict holds keeps its place in the order
OrderedPut(stats, name, days) ==
    IF \E i \in 1..Len(stats) : stats[i].name = name
    THEN [i \in 1..Len(stats) |->
             IF stats[i].name = name THEN [name |-> name, days |-> days]
             ELSE stats[i]]
    ELSE Append(stats, [name |-> name, days |-> days])

\* lines 109-124: the loop over the data rows
RECURSIVE EntityStatsLoop(_, _, _)
EntityStatsLoop(data_rows, days, stats) ==
    IF data_rows = <<>> THEN stats
    ELSE LET cols == Cols(Head(data_rows))
         IN  EntityStatsLoop(
                 Tail(data_rows), days,
                 IF cols = <<>> THEN stats
                 ELSE OrderedPut(stats, cols[1],
                                 EntityDaysLoop(Tail(cols), days, EmptyDict)))

\* line 102: the rows that may be the header
HeaderRows(rows) ==
    SelectSeq(rows, LAMBDA r : Contains(EntityMark, r) /\ Contains(MondayMark, r))
\* lines 103-105
HeaderDays(rows) ==
    LET headers == Cols(HeaderRows(rows)[1])
    IN  IF headers = <<>> THEN <<>> ELSE Tail(headers)

\* lines 87-125
extract_entity_stats(lines) ==
    LET rows == TableRows(lines, EntityStatsHeading)
    IN  IF rows = None THEN <<>>
        ELSE EntityStatsLoop(DataRows(rows[1], EntityMark),
                             HeaderDays(rows[1]), <<>>)
\* line 102 raises IndexError when no row is the header; lines 122-123 raise
\* ValueError
extract_entity_stats_error(lines) ==
    LET rows == TableRows(lines, EntityStatsHeading)
        data_rows == DataRows(rows[1], EntityMark)
    IN  IF rows = None THEN None
        ELSE IF HeaderRows(rows[1]) = <<>> THEN Some("IndexError")
        ELSE IF \E i \in 1..Len(data_rows) :
                    EntityRow_raises(Cols(data_rows[i]), HeaderDays(rows[1]))
        THEN Some("ValueError")
        ELSE None

Bullet == "bullet"
Br == <<"<", "b", "r", ">">>
\* line 148: key.strip().lower().replace(bullet + ' ', '').replace(bullet, '')
EmptyKey(key) ==
    Replace(Replace(Lower(Strip(key)), <<Bullet, " ">>, <<>>), <<Bullet>>, <<>>)
\* lines 145-151: the "key: value" lines of an "Empty Files Analysis" cell
RECURSIVE EmptyLinesLoop(_, _)
EmptyLinesLoop(analysis_lines, day_stats) ==
    IF analysis_lines = <<>> THEN day_stats
    ELSE LET line == Head(analysis_lines)
             kv == SplitOnce(line, <<":">>)
         IN  EmptyLinesLoop(
                 Tail(analysis_lines),
                 IF Contains(<<":">>, line) /\ IsNumberText(Strip(kv[2]))
                 THEN DictSet(day_stats, EmptyKey(kv[1]), float(Strip(kv[2])))
                 ELSE day_stats)
\* line 151: float(val) raises ValueError
EmptyCell_raises(empty_analysis) ==
    \E i \in 1..Len(Split(empty_analysis, Br)) :
        LET line == Split(empty_analysis, Br)[i]
            kv == SplitOnce(line, <<":">>)
        IN  /\ Contains(<<":">>, line)
            /\ IsNumberText(Strip(kv[2]))
            /\ float_raises(Strip(kv[2]))

\* lines 137-153: the loop over the data rows
RECURSIVE EmptyStatsLoop(_, _)
EmptyStatsLoop(data_rows, stats) ==
    IF data_rows = <<>> THEN stats
    ELSE LET cols == Cols(Head(data_rows))
         IN  EmptyStatsLoop(
                 Tail(data_rows),
                 IF Len(cols) >= 3
                 THEN DictSet(stats, cols[1],
                              EmptyLinesLoop(Split(cols[3], Br), EmptyDict))
                 ELSE stats)

\* lines 127-154
extract_empty_file_stats(lines) ==
    LET rows == TableRows(lines, EmptyStatsHeading)
    IN  IF rows = None THEN EmptyDict
        ELSE EmptyStatsLoop(DataRows(rows[1], RowStatisticsMark), EmptyDict)
extract_empty_file_stats_error(lines) ==
    LET rows == TableRows(lines, EmptyStatsHeading)
        data_rows == DataRows(rows[1], RowStatisticsMark)
    IN  IF rows # None /\ \E i \in 1..Len(data_rows) :
                              /\ Len(Cols(data_rows[i])) >= 3
                              /\ EmptyCell_raises(Cols(data_rows[i])[3])
        THEN Some("ValueError")
        ELSE None

\* lines 7-25: CVParser.parse(file_path), of a file that holds the lines
parse(lines) ==
    [source_id |-> extract_source_id(lines),
     expected_files_by_day |-> extract_file_stats(lines),
     upload_window_by_day |-> extract_upload_window(lines),
     filename_patterns |-> extract_filename_patterns(lines),
     entity_stats |-> extract_entity_stats(lines),
     empty_file_stats |-> extract_empty_file_stats(lines)]
\* the exception that leaves parse: the first of the extractors' in the order
\* of lines 11-16; open() raises FileNotFoundError when there is no file
parse_error(doc) ==
    IF doc = None THEN Some("FileNotFoundError")
    ELSE IF extract_file_stats_error(doc[1]) # None
    THEN extract_file_stats_error(doc[1])
    ELSE IF extract_upload_window_error(doc[1]) # None
    THEN extract_upload_window_error(doc[1])
    ELSE IF extract_entity_stats_error(doc[1]) # None
    THEN extract_entity_stats_error(doc[1])
    ELSE extract_empty_file_stats_error(doc[1])

-----------------------------------------------------------------------------
(* CVParser.parse(file_path): the lines of the documents.  "sup2" stands   *)
(* for the superscript two, "endash" for the en dash of the upload windows,*)
(* "bullet" for the bullet of the summary cells and "backquote" for the    *)
(* backquote, one character each.                                          *)

\* **Resource ID**: 207936
IdLine ==
    <<"*", "*", "R", "e", "s", "o", "u", "r", "c", "e", " ", "I", "D", "*",
      "*", ":", " ", "2", "0", "7", "9", "3", "6">>
\* Generic structure <backquote>a_x.csv<backquote>
PatternLine ==
    <<"G", "e", "n", "e", "r", "i", "c", " ", "s", "t", "r", "u", "c", "t",
      "u", "r", "e", " ", "backquote", "a", "_", "x", ".", "c", "s", "v", "backquote">>
\* text
TextLine ==
    <<"t", "e", "x", "t">>
\* ## File Processing Statistics by Day
FileStatsTitle ==
    <<"#", "#", " ", "F", "i", "l", "e", " ", "P", "r", "o", "c", "e", "s",
      "s", "i", "n", "g", " ", "S", "t", "a", "t", "i", "s", "t", "i", "c",
      "s", " ", "b", "y", " ", "D", "a", "y">>
\* | Day | Mean Files | Median Files | Mode Files | StdDev Files | Min Files | Max Files |
FileStatsHeader ==
    <<"|", " ", "D", "a", "y", " ", "|", " ", "M", "e", "a", "n", " ", "F",
      "i", "l", "e", "s", " ", "|", " ", "M", "e", "d", "i", "a", "n", " ",
      "F", "i", "l", "e", "s", " ", "|", " ", "M", "o", "d", "e", " ", "F",
      "i", "l", "e", "s", " ", "|", " ", "S", "t", "d", "D", "e", "v", " ",
      "F", "i", "l", "e", "s", " ", "|", " ", "M", "i", "n", " ", "F", "i",
      "l", "e", "s", " ", "|", " ", "M", "a", "x", " ", "F", "i", "l", "e",
      "s", " ", "|">>
\* |---|---|---|
Separator ==
    <<"|", "-", "-", "-", "|", "-", "-", "-", "|", "-", "-", "-", "|">>
\* | Mon | 2.0 | 2.0 | 2.0 | 0.5 | 1 | 3 |
MonFilesRow ==
    <<"|", " ", "M", "o", "n", " ", "|", " ", "2", ".", "0", " ", "|", " ",
      "2", ".", "0", " ", "|", " ", "2", ".", "0", " ", "|", " ", "0", ".",
      "5", " ", "|", " ", "1", " ", "|", " ", "3", " ", "|">>
\* | Tue | x | 1. | .5 | . | 1.0 | -3 |
TueFilesRow ==
    <<"|", " ", "T", "u", "e", " ", "|", " ", "x", " ", "|", " ", "1", ".",
      " ", "|", " ", ".", "5", " ", "|", " ", ".", " ", "|", " ", "1", ".",
      "0", " ", "|", " ", "-", "3", " ", "|">>
\* | Wed | 1 | 2 |
ShortFilesRow ==
    <<"|", " ", "W", "e", "d", " ", "|", " ", "1", " ", "|", " ", "2", " ",
      "|">>
\* | Fri | 1 | | 3 | 4 | 5 | 6 | 7 |
GapFilesRow ==
    <<"|", " ", "F", "r", "i", " ", "|", " ", "1", " ", "|", " ", "|", " ",
      "3", " ", "|", " ", "4", " ", "|", " ", "5", " ", "|", " ", "6", " ",
      "|", " ", "7", " ", "|">>
\* | Thu | 1 | 1 | 1 | 0 | 0 | <sup2> |
SuperscriptFilesRow ==
    <<"|", " ", "T", "h", "u", " ", "|", " ", "1", " ", "|", " ", "1", " ",
      "|", " ", "1", " ", "|", " ", "0", " ", "|", " ", "0", " ", "|", " ",
      "sup2", " ", "|">>
\* ## Upload Schedule Patterns by Day
UploadTitle ==
    <<"#", "#", " ", "U", "p", "l", "o", "a", "d", " ", "S", "c", "h", "e",
      "d", "u", "l", "e", " ", "P", "a", "t", "t", "e", "r", "n", "s", " ",
      "b", "y", " ", "D", "a", "y">>
\* | Day | Upload Hour | Mean | Min | Max | Upload Time Window Expected | Files |
UploadHeader ==
    <<"|", " ", "D", "a", "y", " ", "|", " ", "U", "p", "l", "o", "a", "d",
      " ", "H", "o", "u", "r", " ", "|", " ", "M", "e", "a", "n", " ", "|",
      " ", "M", "i", "n", " ", "|", " ", "M", "a", "x", " ", "|", " ", "U",
      "p", "l", "o", "a", "d", " ", "T", "i", "m", "e", " ", "W", "i", "n",
      "d", "o", "w", " ", "E", "x", "p", "e", "c", "t", "e", "d", " ", "|",
      " ", "F", "i", "l", "e", "s", " ", "|">>
\* | Mon | 8 | 9 | 7 | 1 | 08:00:00<endash>09:00:00 UTC | 5 |
MonUploadRow ==
    <<"|", " ", "M", "o", "n", " ", "|", " ", "8", " ", "|", " ", "9", " ",
      "|", " ", "7", " ", "|", " ", "1", " ", "|", " ", "0", "8", ":", "0",
      "0", ":", "0", "0", "endash", "0", "9", ":", "0", "0", ":", "0", "0",
      " ", "U", "T", "C", " ", "|", " ", "5", " ", "|">>
\* | Tue | 8 | 9 | 7 | 1 | 08:00:00-09:00:00 UTC | 5 |
TueUploadRow ==
    <<"|", " ", "T", "u", "e", " ", "|", " ", "8", " ", "|", " ", "9", " ",
      "|", " ", "7", " ", "|", " ", "1", " ", "|", " ", "0", "8", ":", "0",
      "0", ":", "0", "0", "-", "0", "9", ":", "0", "0", ":", "0", "0", " ",
      "U", "T", "C", " ", "|", " ", "5", " ", "|">>
\* | Wed | 8 | 9 | 7 | 1 | morning | 5 |
WedUploadRow ==
    <<"|", " ", "W", "e", "d", " ", "|", " ", "8", " ", "|", " ", "9", " ",
      "|", " ", "7", " ", "|", " ", "1", " ", "|", " ", "m", "o", "r", "n",
      "i", "n", "g", " ", "|", " ", "5", " ", "|">>
\* | Thu | 8 |
ShortUploadRow ==
    <<"|", " ", "T", "h", "u", " ", "|", " ", "8", " ", "|">>
\* | Tue | 8 | 9 | 7 | 1 | 08:00<endash>09:00<endash>10:00 | 5 |
TwoDashUploadRow ==
    <<"|", " ", "T", "u", "e", " ", "|", " ", "8", " ", "|", " ", "9", " ",
      "|", " ", "7", " ", "|", " ", "1", " ", "|", " ", "0", "8", ":", "0",
      "0", "endash", "0", "9", ":", "0", "0", "endash", "1", "0", ":", "0",
      "0", " ", "|", " ", "5", " ", "|">>
\* ## Entity Statistics by Day of Week
EntityTitle ==
    <<"#", "#", " ", "E", "n", "t", "i", "t", "y", " ", "S", "t", "a", "t",
      "i", "s", "t", "i", "c", "s", " ", "b", "y", " ", "D", "a", "y", " ",
      "o", "f", " ", "W", "e", "e", "k">>
\* | Entity | Monday | Tuesday |
EntityHeader ==
    <<"|", " ", "E", "n", "t", "i", "t", "y", " ", "|", " ", "M", "o", "n",
      "d", "a", "y", " ", "|", " ", "T", "u", "e", "s", "d", "a", "y", " ",
      "|">>
\* | a | Median Files: 1.00<br>Median Rows: 10 | Median Files: 2 |
EntityARow ==
    <<"|", " ", "a", " ", "|", " ", "M", "e", "d", "i", "a", "n", " ", "F",
      "i", "l", "e", "s", ":", " ", "1", ".", "0", "0", "<", "b", "r", ">",
      "M", "e", "d", "i", "a", "n", " ", "R", "o", "w", "s", ":", " ", "1",
      "0", " ", "|", " ", "M", "e", "d", "i", "a", "n", " ", "F", "i", "l",
      "e", "s", ":", " ", "2", " ", "|">>
\* | b | n/a |
EntityBRow ==
    <<"|", " ", "b", " ", "|", " ", "n", "/", "a", " ", "|">>
\* | a | Median Files: 1.2.3 |
BadMedianRow ==
    <<"|", " ", "a", " ", "|", " ", "M", "e", "d", "i", "a", "n", " ", "F",
      "i", "l", "e", "s", ":", " ", "1", ".", "2", ".", "3", " ", "|">>
\* ## Day-of-Week Summary
EmptyTitle ==
    <<"#", "#", " ", "D", "a", "y", "-", "o", "f", "-", "W", "e", "e", "k",
      " ", "S", "u", "m", "m", "a", "r", "y">>
\* | Day | Row Statistics | Empty Files Analysis | Processing Notes |
EmptyHeader ==
    <<"|", " ", "D", "a", "y", " ", "|", " ", "R", "o", "w", " ", "S", "t",
      "a", "t", "i", "s", "t", "i", "c", "s", " ", "|", " ", "E", "m", "p",
      "t", "y", " ", "F", "i", "l", "e", "s", " ", "A", "n", "a", "l", "y",
      "s", "i", "s", " ", "|", " ", "P", "r", "o", "c", "e", "s", "s", "i",
      "n", "g", " ", "N", "o", "t", "e", "s", " ", "|">>
\* | Mon | x | <bullet> Min: 0<br><bullet> Max: 1<br>Mean: 0.40<br>note | ok |
MonEmptyRow ==
    <<"|", " ", "M", "o", "n", " ", "|", " ", "x", " ", "|", " ", "bullet",
      " ", "M", "i", "n", ":", " ", "0", "<", "b", "r", ">", "bullet", " ",
      "M", "a", "x", ":", " ", "1", "<", "b", "r", ">", "M", "e", "a", "n",
      ":", " ", "0", ".", "4", "0", "<", "b", "r", ">", "n", "o", "t", "e",
      " ", "|", " ", "o", "k", " ", "|">>
\* | Tue | x |
ShortEmptyRow ==
    <<"|", " ", "T", "u", "e", " ", "|", " ", "x", " ", "|">>
\* | Wed | x | Max: many<br>none | ok |
WedEmptyRow ==
    <<"|", " ", "W", "e", "d", " ", "|", " ", "x", " ", "|", " ", "M", "a",
      "x", ":", " ", "m", "a", "n", "y", "<", "b", "r", ">", "n", "o", "n",
      "e", " ", "|", " ", "o", "k", " ", "|">>

\* The sections of a document: each is absent, well formed, or irregular in
\* one of the ways the parser meets
IdLines == {<<>>, <<IdLine>>}
PatternLines == {<<>>, <<PatternLine>>}
FileStatsSections ==
    {<<>>,
     <<FileStatsTitle, <<>>, FileStatsHeader, Separator, MonFilesRow, <<>>>>,
     <<FileStatsTitle, FileStatsHeader, Separator, MonFilesRow, TueFilesRow,
       ShortFilesRow, GapFilesRow, TextLine>>,
     <<FileStatsTitle, FileStatsHeader, Separator, SuperscriptFilesRow, <<>>>>}
UploadSections ==
    {<<>>,
     <<UploadTitle, UploadHeader, Separator, MonUploadRow, TueUploadRow, <<>>>>,
     <<UploadTitle, UploadHeader, Separator, WedUploadRow, ShortUploadRow,
       <<>>>>,
     <<UploadTitle, UploadHeader, Separator, TwoDashUploadRow, <<>>>>}
EntitySections ==
    {<<>>,
     <<EntityTitle, EntityHeader, Separator, EntityARow, EntityBRow, <<>>>>,
     <<EntityTitle, Separator, EntityARow, <<>>>>,
     <<EntityTitle, EntityHeader, Separator, BadMedianRow, <<>>>>}
EmptySections ==
    {<<>>,
     <<EmptyTitle, EmptyHeader, Separator, MonEmptyRow, TextLine>>,
     <<EmptyTitle, EmptyHeader, Separator, ShortEmptyRow, WedEmptyRow>>}

\* the documents: the sections in the order of the parser's extractors
Document(id, pattern, fs, up, en, em) == id \o pattern \o fs \o up \o en \o em
Documents ==
    {Document(id, pattern, fs, up, en, em) :
        id \in IdLines, pattern \in PatternLines, fs \in FileStatsSections,
        up \in UploadSections, en \in EntitySections, em \in EmptySections}

InitParse ==
    /\ pc = "start"
    /\ files = <<>>
    /\ cv = NoCV
    /\ current_date = 0
    /\ incidents = <<>>
    /\ source_report = None
    /\ source_reports = <<>>
    /\ report = None
    /\ error = None
    /\ detectors = <<>>
    /\ data_dir = None
    /\ date_str = None
    /\ agent_mode = "pipeline"
    /\ todo = <<>>
    /\ scan_results = <<>>
    /\ source_stats = EmptyDict
    /\ step = 0
    /\ llm_calls = 0
    /\ summary = None
    /\ content \in {None} \cup {Some(d) : d \in Documents}

\* cv = CVParser().parse(file_path)
Parse ==
    /\ pc = "start"
    /\ error' = parse_error(content)
    /\ cv' = IF error' = None THEN parse(content[1]) ELSE cv
    /\ pc' = "done"
    /\ UNCHANGED <<files, current_date, incidents, source_report,
                   source_reports, report, detectors, data_dir, date_str,
                   agent_mode, todo, scan_results, source_stats, step,
                   llm_calls, summary, content>>

SpecParse == InitParse /\ [][Parse]_vars

-----------------------------------------------------------------------------
(* C1: consolidate_source computes the source status by the ordered policy *)
(* Urgent if some incident is Urgent; else Urgent if more than 3 incidents *)
(* are NeedsAttention; else NeedsAttention if some incident is             *)
(* NeedsAttention; else AllGood.  Exactly 3 NeedsAttention incidents and   *)
(* no Urgent one give NeedsAttention, 4 give Urgent, and removing the      *)
(* AllGood incidents from the list does not change the status.             *)

NumSeverity(incs, sev) == Cardinality({i \in 1..Len(incs) : incs[i].severity = sev})

C1_Policy(incs) ==
    IF NumSeverity(incs, URGENT) >= 1 THEN URGENT
    ELSE IF NumSeverity(incs, NEEDS_ATTENTION) > 3 THEN URGENT
    ELSE IF NumSeverity(incs, NEEDS_ATTENTION) >= 1 THEN NEEDS_ATTENTION
    ELSE ALL_GOOD

C1_WithoutAllGood(incs) == SelectSeq(incs, LAMBDA i : i.severity # ALL_GOOD)

\* C1: the status of the report is the policy's, for the list consolidated
C1_ConsolidatePolicy ==
    (pc = "done" /\ source_report # None) =>
        LET r == source_report[1]
            nU == NumSeverity(incidents, URGENT)
            nA == NumSeverity(incidents, NEEDS_ATTENTION)
        IN  /\ r.status = C1_Policy(incidents)
            /\ (nU = 0 /\ nA = 3) => r.status = NEEDS_ATTENTION
            /\ (nU = 0 /\ nA = 4) => r.status = URGENT
            /\ r.status = C1_Policy(C1_WithoutAllGood(incidents))
            /\ r.incidents = incidents

\* four NeedsAttention incidents, an AllGood one and no Urgent one, consolidated
C1_Witness ==
    /\ pc = "done"
    /\ source_report # None
    /\ NumSeverity(incidents, URGENT) = 0
    /\ NumSeverity(incidents, NEEDS_ATTENTION) = 4
    /\ NumSeverity(incidents, ALL_GOOD) = 1
    /\ source_report[1].status = URGENT

-----------------------------------------------------------------------------
(* C2: generate sets the overall status to the highest source status       *)
(* (Urgent if any source report is Urgent, else NeedsAttention if any is   *)
(* NeedsAttention, else AllGood, also for the empty list), and the counts  *)
(* in the summary are the numbers of source reports with those statuses.   *)

NumStatus(rs, st) == Cardinality({i \in 1..Len(rs) : rs[i].status = st})

\* C2: the overall status is the highest source status; the counts agree
C2_GenerateHighest ==
    (pc = "done" /\ report # None) =>
        LET r == report[1]
        IN  /\ r.status =
                 IF \E i \in 1..Len(source_reports) :
                        source_reports[i].status = URGENT
                 THEN URGENT
                 ELSE IF \E i \in 1..Len(source_reports) :
                             source_reports[i].status = NEEDS_ATTENTION
                      THEN NEEDS_ATTENTION
                      ELSE ALL_GOOD
            /\ r.summary.status = r.status
            /\ r.summary.urgent_count = NumStatus(source_reports, URGENT)
            /\ r.summary.needs_attention_count =
                   NumStatus(source_reports, NEEDS_ATTENTION)
            /\ r.sources = source_reports

\* a report over an Urgent, a NeedsAttention and an AllGood source
C2_Witness ==
    /\ pc = "done"
    /\ report # None
    /\ NumStatus(source_reports, URGENT) = 1
    /\ NumStatus(source_reports, NEEDS_ATTENTION) = 1
    /\ NumStatus(source_reports, ALL_GOOD) = 1
    /\ report[1].status = URGENT

\* the empty list of source reports gives AllGood
C2_WitnessEmpty ==
    pc = "done" /\ report # None /\ source_reports = <<>>
        /\ report[1].status = ALL_GOOD

-----------------------------------------------------------------------------
(* Reading the list MissingFileDetector.detect returned *)

HasExpected == strftime_a(current_date) \in DOMAIN cv.expected_files_by_day
Expected == cv.expected_files_by_day[strftime_a(current_date)]

\* the count-level incident carries expected_min, an entity-level one entity
IsCountIncident(i) == "expected_min" \in DOMAIN i.details
IsEntityIncident(i, e) == "entity" \in DOMAIN i.details /\ i.details.entity = e

CountIncidents == SelectSeq(incidents, IsCountIncident)
NumEntityIncidents(e) ==
    Cardinality({k \in 1..Len(incidents) : IsEntityIncident(incidents[k], e)})

AllUrgentMissingFile ==
    \A k \in 1..Len(incidents) :
        /\ incidents[k].incident_type = MISSING_FILE
        /\ incidents[k].severity = URGENT
        /\ incidents[k].source_id = cv.source_id
        /\ incidents[k].file_name = None

-----------------------------------------------------------------------------
(* C3 as stated: an empty batch on a weekday whose entry has median > 0 or *)
(* mode > 0 gives exactly one Urgent MissingFile incident, with effective  *)
(* minimum 1.                                                              *)

C3_EmptyBatchExpected ==
    /\ pc = "done"
    /\ Len(files) = 0
    /\ HasExpected
    /\ (Expected.median > 0 \/ Expected.mode > 0)

\* C3 as stated: the list is one count-level incident with effective minimum 1
C3_AsStated ==
    C3_EmptyBatchExpected =>
        /\ Len(incidents) = 1
        /\ AllUrgentMissingFile
        /\ IsCountIncident(incidents[1])
        /\ incidents[1].details.expected_min = 1

(* C3 as amended: an empty batch on a weekday whose entry has median > 0   *)
(* or mode > 0 gives exactly one count-level Urgent MissingFile incident,  *)
(* the first of the list; its effective minimum is 1 when the weekday's    *)
(* min is 0 or 1 and min itself when min is larger; every other incident   *)
(* of the list is an entity-level Urgent MissingFile incident.             *)

\* C3 as amended: one count-level incident, first, with minimum max(min, 1)
C3_EmptyBatchOneCountIncident ==
    C3_EmptyBatchExpected =>
        /\ Len(CountIncidents) = 1
        /\ AllUrgentMissingFile
        /\ IsCountIncident(incidents[1])
        /\ incidents[1].details.expected_min =
               (IF Expected.min <= 1 THEN 1 ELSE Expected.min)
        /\ incidents[1].details.found = 0
        /\ \A k \in 2..Len(incidents) :
               \E i \in 1..Len(cv.entity_stats) :
                   IsEntityIncident(incidents[k], cv.entity_stats[i].name)

\* min 0, median 0, mode 1, no file: the one incident, with effective minimum 1
C3_Witness ==
    /\ C3_EmptyBatchExpected
    /\ Expected.min = 0 /\ Expected.median = 0 /\ Expected.mode = 1
    /\ Len(incidents) = 1
    /\ IsCountIncident(incidents[1])
    /\ incidents[1].details.expected_min = 1

-----------------------------------------------------------------------------
(* C4: on a weekday with a file-count entry, the effective minimum is 1    *)
(* when min is 0 and (median > 0 or mode > 0) and min itself otherwise; a  *)
(* count-level Urgent MissingFile incident is raised iff len(files) is     *)
(* less than the effective minimum, at most once per batch, and its        *)
(* details carry the effective minimum, the observed count and the raw     *)
(* profile min and mean.                                                   *)

C4_EffectiveMinimum ==
    IF Expected.min = 0 /\ (Expected.median > 0 \/ Expected.mode > 0)
    THEN 1 ELSE Expected.min

C4_WitnessZero ==
    /\ pc = "done"
    /\ HasExpected
    /\ Expected.min = 0 /\ Expected.median = 0 /\ Expected.mode = 0
    /\ Len(files) = 0
    /\ Len(CountIncidents) = 0

-----------------------------------------------------------------------------
(* C5: with no entry in expectedFileCountByWeekday for the evaluation      *)
(* date's weekday, MissingFileDetector returns the empty list, for every   *)
(* batch and every entity baseline.                                        *)

\* C5: no file-count entry for the weekday, no incident
C5_NoEntryNoIncident ==
    (pc = "done" /\ ~HasExpected) => incidents = <<>>

\* no entry, and an entity expected on that weekday with no file of its own
C5_Witness ==
    /\ pc = "done"
    /\ ~HasExpected
    /\ incidents = <<>>
    /\ \E i \in 1..Len(cv.entity_stats) :
          LET item == cv.entity_stats[i]
          IN  /\ strftime_A(current_date) \in DOMAIN item.days
              /\ item.days[strftime_A(current_date)].median_files > 0
              /\ \A k \in 1..Len(files) :
                     ~Contains(EntityPattern(item.name), files[k].filename)

-----------------------------------------------------------------------------
(* C6: on a weekday with a file-count entry, an Urgent MissingFile         *)
(* incident naming entity E is raised iff E has stats under the full       *)
(* weekday name with medianFileCount > 0 and the substring _E_ is found in *)
(* no filename of the batch.                                               *)

C6_InSomeFilename(e) ==
    \E k \in 1..Len(files) : Contains(EntityPattern(e), files[k].filename)

C6_EntityExpected(item) ==
    /\ strftime_A(current_date) \in DOMAIN item.days
    /\ item.days[strftime_A(current_date)].median_files > 0

\* C6: an incident names E iff E is expected and _E_ is in no filename
C6_EntityIncidentIffInNoFilename ==
    (pc = "done" /\ HasExpected) =>
        \A i \in 1..Len(cv.entity_stats) :
            LET item == cv.entity_stats[i]
            IN  NumEntityIncidents(item.name) > 0
                    <=> (C6_EntityExpected(item) /\ ~C6_InSomeFilename(item.name))

-----------------------------------------------------------------------------
(* C7: DuplicatedFailedFileDetector returns, for every batch, (number of   *)
(* files with isDuplicateFlag true or status exactly "STOPPED" or          *)
(* "failed") + (number of files whose filename occurs at an earlier        *)
(* position) incidents, all Urgent DuplicatedFile; a file meeting both     *)
(* conditions yields two, the first occurrence of a filename yields no     *)
(* duplicate-name incident, and "stopped" or "FAILED" yields none.         *)

C7_Flagged(k) ==
    files[k].is_duplicated \/ files[k].status \in {"STOPPED", "failed"}
C7_SeenEarlier(k) == \E j \in 1..(k - 1) : files[j].filename = files[k].filename

C7_NumFlagged(name) ==
    Cardinality({k \in 1..Len(files) :
                    files[k].filename = name /\ C7_Flagged(k)})
C7_NumSeenEarlier(name) ==
    Cardinality({k \in 1..Len(files) :
                    files[k].filename = name /\ C7_SeenEarlier(k)})

\* a flag incident carries the status, a duplicate-name incident no details
C7_NumFlagIncidents(name) ==
    Cardinality({i \in 1..Len(incidents) :
                    /\ incidents[i].file_name = Some(name)
                    /\ "status" \in DOMAIN incidents[i].details})
C7_NumNameIncidents(name) ==
    Cardinality({i \in 1..Len(incidents) :
                    /\ incidents[i].file_name = Some(name)
                    /\ incidents[i].details = EmptyDict})

\* C7: one incident per flagged file and one per repeated filename
C7_DuplicateCount ==
    pc = "done" =>
        /\ Len(incidents) =
               Cardinality({k \in 1..Len(files) : C7_Flagged(k)})
               + Cardinality({k \in 1..Len(files) : C7_SeenEarlier(k)})
        /\ \A i \in 1..Len(incidents) :
               /\ incidents[i].incident_type = DUPLICATED_FILE
               /\ incidents[i].severity = URGENT
        /\ \A k \in 1..Len(files) :
               LET name == files[k].filename
               IN  /\ C7_NumFlagIncidents(name) = C7_NumFlagged(name)
                   /\ C7_NumNameIncidents(name) = C7_NumSeenEarlier(name)

\* two files of one name: the first "stopped" and unflagged (no incident), the
\* second flagged (two incidents)
C7_Witness ==
    /\ pc = "done"
    /\ Len(files) = 2
    /\ files[1].filename = files[2].filename
    /\ files[1].status = "stopped" /\ ~files[1].is_duplicated
    /\ files[2].status = "FAILED" /\ files[2].is_duplicated
    /\ Len(incidents) = 2
    /\ incidents[1].details = [status |-> "FAILED", is_duplicated |-> TRUE]
    /\ incidents[2].details = EmptyDict

-----------------------------------------------------------------------------
(* C8: if the weekday's empty-file baseline has max > 0,                   *)
(* UnexpectedEmptyFileDetector returns no incident, however many files     *)
(* have rowCount 0; otherwise (max is 0, or the statistic or the weekday   *)
(* entry is absent) it returns exactly one Urgent UnexpectedEmpty incident *)
(* for every file with rowCount 0, in batch order, and none for a file     *)
(* with rowCount > 0.                                                      *)

C8_HasDay == strftime_a(current_date) \in DOMAIN cv.empty_file_stats
C8_HasMax ==
    C8_HasDay /\ "max" \in DOMAIN cv.empty_file_stats[strftime_a(current_date)]
C8_Tolerated ==
    C8_HasMax /\ cv.empty_file_stats[strftime_a(current_date)].max > 0

C8_EmptyFiles == SelectSeq(files, LAMBDA f : f.rows = 0)

\* C8: max > 0 tolerates every empty file; otherwise one incident each
C8_EmptyTolerance ==
    pc = "done" =>
        IF C8_Tolerated THEN incidents = <<>>
        ELSE /\ Len(incidents) = Len(C8_EmptyFiles)
             /\ \A i \in 1..Len(incidents) :
                    /\ incidents[i].incident_type = UNEXPECTED_EMPTY
                    /\ incidents[i].severity = URGENT
                    /\ incidents[i].file_name = Some(C8_EmptyFiles[i].filename)

\* a weekday entry with no max statistic, an empty file and a file with rows
C8_Witness ==
    /\ pc = "done"
    /\ C8_HasDay /\ ~C8_HasMax
    /\ Len(files) = 2
    /\ files[1].rows > 0 /\ files[2].rows = 0
    /\ Len(incidents) = 1
    /\ incidents[1].file_name = Some(files[2].filename)

\* max 1 on a Monday and two empty files: no incident
C8_WitnessTolerated ==
    /\ pc = "done"
    /\ current_date = Monday
    /\ C8_HasMax /\ cv.empty_file_stats["Mon"].max = 1
    /\ Len(C8_EmptyFiles) = 2
    /\ incidents = <<>>

-----------------------------------------------------------------------------
(* C9: exactly one source-level NeedsAttention VolumeVariation incident    *)
(* (with no fileName) is raised iff the weekday's expected max file count  *)
(* is > 0 and the observed file count is strictly greater than max * 1.5;  *)
(* a count equal to max * 1.5, or any count when max is 0, raises none.    *)

C9_SourceLevel ==
    SelectSeq(incidents, LAMBDA i : i.file_name = None)

C9_Surge ==
    /\ HasExpected
    /\ Expected.max > 0
    /\ 2 * Len(files) > 3 * Expected.max

\* C9: the source-level incident iff max > 0 and count > max * 1.5
C9_AggregateSurge ==
    pc = "done" =>
        /\ Len(C9_SourceLevel) = (IF C9_Surge THEN 1 ELSE 0)
        /\ \A i \in 1..Len(C9_SourceLevel) :
               /\ C9_SourceLevel[i].incident_type = VOLUME_VARIATION
               /\ C9_SourceLevel[i].severity = NEEDS_ATTENTION
               /\ C9_SourceLevel[i].details =
                      [total_files |-> Len(files), expected_max |-> Expected.max]
        /\ (HasExpected /\ 2 * Len(files) = 3 * Expected.max)
               => C9_SourceLevel = <<>>
        /\ (HasExpected /\ Expected.max = 0) => C9_SourceLevel = <<>>

\* max 1 and two files: the surge incident
C9_Witness ==
    /\ pc = "done"
    /\ HasExpected /\ Expected.max = 1
    /\ Len(files) = 2
    /\ Len(C9_SourceLevel) = 1

\* max 2 and three files, exactly max * 1.5: none
C9_WitnessEqual ==
    /\ pc = "done"
    /\ HasExpected /\ Expected.max = 2
    /\ Len(files) = 3
    /\ C9_SourceLevel = <<>>

-----------------------------------------------------------------------------
(* C10: each file is attributed to at most one entity, the first in        *)
(* profile order whose _entity_ substring occurs in the filename; a        *)
(* NeedsAttention VolumeVariation incident is raised for the file iff that *)
(* entity has a median-row baseline > 0 under the full weekday name and    *)
(* the file's row count is strictly greater than 3 times the median or     *)
(* strictly less than 0.1 times the median; every file contributes at most *)
(* one incident, so the list has at most len(files) + 1 incidents.         *)

C10_FileLevel == SelectSeq(incidents, LAMBDA i : i.file_name # None)

\* the positions in the profile of the entities whose pattern is in the name
C10_Matching(f) ==
    {i \in 1..Len(cv.entity_stats) :
        Contains(EntityPattern(cv.entity_stats[i].name), f.filename)}

\* the file deviates from the baseline of the first matching entity
C10_Deviates(f) ==
    \E i \in C10_Matching(f) :
        /\ \A j \in C10_Matching(f) : i <= j
        /\ LET days == cv.entity_stats[i].days
               day == strftime_A(current_date)
           IN  /\ day \in DOMAIN days
               /\ days[day].median_rows > 0
               /\ \/ f.rows > 3 * days[day].median_rows
                  \/ 10 * f.rows < days[day].median_rows

C10_Deviating == SelectSeq(files, C10_Deviates)

C10_Body ==
    /\ Len(C10_FileLevel) = Len(C10_Deviating)
    /\ \A i \in 1..Len(C10_FileLevel) :
           /\ C10_FileLevel[i].incident_type = VOLUME_VARIATION
           /\ C10_FileLevel[i].severity = NEEDS_ATTENTION
           /\ C10_FileLevel[i].file_name = Some(C10_Deviating[i].filename)
           /\ C10_FileLevel[i].details.rows = C10_Deviating[i].rows
    /\ Len(incidents) <= Len(files) + 1

\* C10: one file-level incident per deviating file, and no other
C10_PerFileCheck == pc = "done" => C10_Body

\* The per-file check does behave as C10 says on every weekday that has a
\* file-count entry.
C10_PerFileCheckWithEntry == (pc = "done" /\ HasExpected) => C10_Body

-----------------------------------------------------------------------------
(* C11.  Late uploads.  The claim is read against the code's comparison    *)
(* with an independent one: the upload's wall clock as seconds and         *)
(* microseconds since the midnight that starts the evaluation date, the    *)
(* deadline as the window end's seconds plus 4 * 3600.  The UTC offset of  *)
(* the timestamp plays no part.  A window end that is no time of day is    *)
(* C12's case and is left out here.                                        *)

C11_Parses(f) ==
    /\ f.uploaded_at.wellformed
    /\ ValidDate(f.uploaded_at.ymd)
    /\ ValidTime(f.uploaded_at.hms)

C11_AllParse == \A i \in 1..Len(files) : C11_Parses(files[i])

\* the profile has a window for the evaluation date's weekday whose end time
\* is present
C11_HasEnd ==
    /\ strftime_a(current_date) \in DOMAIN cv.upload_window_by_day
    /\ cv.upload_window_by_day[strftime_a(current_date)].end # None
    /\ cv.upload_window_by_day[strftime_a(current_date)].end[1].kind # "empty"

C11_End == cv.upload_window_by_day[strftime_a(current_date)].end[1]

C11_EndIsTime == C11_End.kind = "hms" /\ ValidTime(C11_End.hms)

\* seconds from the evaluation date's midnight to the upload's wall clock
C11_WallSecs(f) ==
    (DayNumber(f.uploaded_at.ymd) - current_date) * 86400
    + SecondsOf(f.uploaded_at.hms)

C11_DeadlineSecs == SecondsOf(C11_End.hms) + 4 * 3600

C11_Late(f) ==
    \/ C11_WallSecs(f) > C11_DeadlineSecs
    \/ C11_WallSecs(f) = C11_DeadlineSecs /\ f.uploaded_at.micro > 0

C11_LateFiles == SelectSeq(files, C11_Late)

C11_IsLateIncident(inc, f) ==
    /\ inc.incident_type = LATE_UPLOAD
    /\ inc.severity = NEEDS_ATTENTION
    /\ inc.source_id = cv.source_id
    /\ inc.file_name = Some(f.filename)

\* C11: when every timestamp of the batch parses, the detector returns one
\* NeedsAttention LateUpload incident for each file whose upload wall clock is
\* strictly after the window end on the evaluation date plus four hours, in
\* file order, and nothing else; with no window, or no end time, it returns
\* nothing.
C11_LateUpload ==
    (pc = "done" /\ C11_AllParse) =>
        IF C11_HasEnd
        THEN C11_EndIsTime =>
                /\ Len(incidents) = Len(C11_LateFiles)
                /\ \A i \in 1..Len(incidents) :
                       C11_IsLateIncident(incidents[i], C11_LateFiles[i])
        ELSE incidents = <<>>

\* window end 09:00:00; an upload at 14:05:00 and one at 12:30:00: one
\* incident, for the first
C11_Witness ==
    /\ pc = "done"
    /\ C11_HasEnd
    /\ C11_End = TimeText(9, 0, 0)
    /\ Len(files) = 2
    /\ files[1].uploaded_at.hms = <<14, 5, 0>> /\ C11_Parses(files[1])
    /\ files[2].uploaded_at.hms = <<12, 30, 0>>
    /\ Len(incidents) = 1
    /\ incidents[1].file_name = Some(files[1].filename)

\* an upload exactly at the deadline, 13:00:00.000000, and no incident
C11_WitnessAtDeadline ==
    /\ pc = "done"
    /\ C11_HasEnd
    /\ C11_End = TimeText(9, 0, 0)
    /\ Len(files) = 1
    /\ files[1].uploaded_at.hms = <<13, 0, 0>>
    /\ files[1].uploaded_at.micro = 0
    /\ incidents = <<>>

-----------------------------------------------------------------------------
(* C12, C13.  Malformed window ends and timestamps.                        *)

\* the position of the first file whose timestamp does not parse, Len + 1
\* when all parse
C12_FirstBad ==
    IF C11_AllParse THEN Len(files) + 1
    ELSE CHOOSE i \in 1..Len(files) :
             /\ ~C11_Parses(files[i])
             /\ \A j \in 1..(i - 1) : C11_Parses(files[j])

\* the files evaluated before the failure, and the late ones among them
C12_Evaluated == SubSeq(files, 1, C12_FirstBad - 1)
C12_LateEvaluated == SelectSeq(C12_Evaluated, C11_Late)

\* C12: LateUploadDetector.detect never lets an error out; with a malformed
\* window end it returns no incident, and with a malformed timestamp it
\* returns exactly the incidents of the files that precede the first
\* malformed one.
C12_SwallowedFailures ==
    pc = "done" =>
        /\ error = None
        /\ (C11_HasEnd /\ ~C11_EndIsTime) => incidents = <<>>
        /\ (C11_HasEnd /\ C11_EndIsTime) =>
               /\ Len(incidents) = Len(C12_LateEvaluated)
               /\ \A i \in 1..Len(incidents) :
                      C11_IsLateIncident(incidents[i], C12_LateEvaluated[i])

\* a late file, then a file whose timestamp does not parse: the one incident
\* is returned
C12_Witness ==
    /\ pc = "done"
    /\ C11_HasEnd /\ C11_EndIsTime
    /\ Len(files) = 2
    /\ C11_Parses(files[1]) /\ C11_Late(files[1])
    /\ ~C11_Parses(files[2])
    /\ Len(incidents) = 1
    /\ error = None

\* a window end that is no time of day, a batch with files, and no incident
C12_WitnessMalformedEnd ==
    /\ pc = "done"
    /\ C11_HasEnd /\ ~C11_EndIsTime
    /\ Len(files) > 0
    /\ incidents = <<>>
    /\ error = None

C13_ParsedLate(f) == C11_Parses(f) /\ C11_Late(f)
C13_LateFiles == SelectSeq(files, C13_ParsedLate)

\* C13: a timestamp that does not parse skips the check for its own file
\* only: every file that parses and is late has its incident, whether it
\* comes before or after the malformed one.
C13_SkipsThatFileOnly ==
    (pc = "done" /\ C11_HasEnd /\ C11_EndIsTime) =>
        /\ Len(incidents) = Len(C13_LateFiles)
        /\ \A i \in 1..Len(incidents) :
               C11_IsLateIncident(incidents[i], C13_LateFiles[i])

-----------------------------------------------------------------------------
(* C14.  Files of previous periods.  The claim is read on the producer's   *)
(* side: a filename is <prefix>_YYYYMMDD.csv for the calendar date         *)
(* (Y, M, D), and "more than two days before" is decided on (Y, M, D)      *)
(* triples, by stepping the evaluation date back two calendar days and     *)
(* comparing the triples in dictionary order.  The years of the names are  *)
(* 0, 2024 and 2025, where a leap year is a multiple of four.              *)

C14_Today == CHOOSE d \in PreviousEvalDates : DayNumber(d) = current_date

\* the calendar day before ymd
C14_DayBefore(ymd) ==
    IF ymd[3] > 1 THEN <<ymd[1], ymd[2], ymd[3] - 1>>
    ELSE IF ymd[2] > 1
         THEN <<ymd[1], ymd[2] - 1, DaysInMonth(ymd[1], ymd[2] - 1)>>
         ELSE <<ymd[1] - 1, 12, 31>>

C14_Earlier(a, b) ==
    \/ a[1] < b[1]
    \/ a[1] = b[1] /\ a[2] < b[2]
    \/ a[1] = b[1] /\ a[2] = b[2] /\ a[3] < b[3]

C14_IsCalendarDate(ymd) ==
    /\ ymd[1] >= 1
    /\ ymd[2] \in 1..12
    /\ ymd[3] >= 1
    /\ ymd[3] <= (IF ymd[2] \in {1, 3, 5, 7, 8, 10, 12} THEN 31
                  ELSE IF ymd[2] # 2 THEN 30
                  ELSE IF ymd[1] % 4 = 0 THEN 29 ELSE 28)

\* f is named <prefix>_YYYYMMDD.csv for a calendar date more than two days
\* before the evaluation date
C14_Old(f) ==
    \E d \in EmbeddedDates \cup EmbeddedNonDates :
        /\ f.filename = DateName(TokX, d)
        /\ C14_IsCalendarDate(d)
        /\ C14_Earlier(d, C14_DayBefore(C14_DayBefore(C14_Today)))

C14_OldFiles == SelectSeq(files, C14_Old)

\* C14: the detector returns, in file order, exactly one AllGood PreviousFile
\* incident for each file named <prefix>_YYYYMMDD.csv whose date is valid and
\* more than two days before the evaluation date; files with a date two days
\* back or later, with eight digits that are no date, or without the suffix
\* get none, and no error leaves the detector.
C14_PreviousFile ==
    pc = "done" =>
        /\ error = None
        /\ Len(incidents) = Len(C14_OldFiles)
        /\ \A i \in 1..Len(incidents) :
               /\ incidents[i].incident_type = PREVIOUS_FILE
               /\ incidents[i].severity = ALL_GOOD
               /\ incidents[i].source_id = cv.source_id
               /\ incidents[i].file_name = Some(C14_OldFiles[i].filename)

\* evaluation date 2025-09-10: a file dated three days back and one dated two
\* days back; one incident, for the first
C14_Witness ==
    /\ pc = "done"
    /\ C14_Today = <<2025, 9, 10>>
    /\ Len(files) = 2
    /\ files[1].filename = DateName(TokX, <<2025, 9, 7>>)
    /\ files[2].filename = DateName(TokX, <<2025, 9, 8>>)
    /\ Len(incidents) = 1
    /\ incidents[1].file_name = Some(files[1].filename)

\* eight digits that are no date (September 31st), and a name without the
\* suffix: no incident and no error
C14_WitnessInvalid ==
    /\ pc = "done"
    /\ Len(files) = 2
    /\ files[1].filename = DateName(TokX, <<2025, 9, 31>>)
    /\ files[2].filename \in NamesWithoutDate
    /\ incidents = <<>>
    /\ error = None

-----------------------------------------------------------------------------
(* C16.  The order of the detectors.  The multiset of a list is read off   *)
(* by counting: the number of positions of the merged list that hold an    *)
(* incident is the sum, over the six detectors, of the number of positions *)
(* of that detector's own list that hold it.                               *)

C16_Count(x, seq) == Cardinality({i \in 1..Len(seq) : seq[i] = x})

\* the list each detector of the agent returns, by its position in the
\* agent's own order
C16_PerDetector ==
    [d \in 1..Len(AgentDetectors) |->
        Detect(AgentDetectors[d], files, cv, current_date)]

RECURSIVE C16_Sum(_, _)
C16_Sum(f, n) == IF n = 0 THEN 0 ELSE f[n] + C16_Sum(f, n - 1)

\* what Agent's own order of the detectors gives
C16_InAgentOrder == RunDetectors(AgentDetectors, files, cv, current_date)

\* C16: whatever the order the six detectors run in, the merged list holds
\* every incident as many times as the six detectors return it together, as
\* the list of the agent's own order does, and the consolidated status is the
\* one of the agent's own order.
C16_OrderOfDetectors ==
    pc = "done" =>
        LET own == C16_InAgentOrder
            each == C16_PerDetector
            all == {incidents[i] : i \in 1..Len(incidents)}
                   \cup {own[i] : i \in 1..Len(own)}
        IN  /\ \A x \in all :
                   /\ C16_Count(x, incidents) =
                          C16_Sum([d \in DOMAIN each |-> C16_Count(x, each[d])],
                                  Len(each))
                   /\ C16_Count(x, incidents) = C16_Count(x, own)
            /\ Len(incidents) = Len(own)
            /\ source_report[1].status =
                   consolidate_source(cv.source_id, own, Len(files),
                                      TotalRows(files)).status

\* another order than the agent's, at least three detectors with incidents,
\* and a merged list in another order than the agent's
C16_Witness ==
    /\ pc = "done"
    /\ detectors # AgentDetectors
    /\ incidents # C16_InAgentOrder
    /\ Cardinality({d \in 1..6 :
           Detect(AgentDetectors[d], files, cv, current_date) # <<>>}) >= 3

-----------------------------------------------------------------------------
(* C17, C18.  The sources of one day.  What one source's report must be is *)
(* written from that source's own entry of files.json, its own profile     *)
(* document and the date, with the agent's detectors in the agent's order  *)
(* and nothing of the run's state.                                         *)

C17_Day == data_dir.folders[date_str]

C17_OwnFiles(item) == DailyFiles(item.file_list, date_str)

C17_OwnReport(item) ==
    consolidate_source(
        item.source_id,
        RunDetectors(AgentDetectors, C17_OwnFiles(item),
                     data_dir.cvs[item.source_id], DayNumber(date_str)),
        Len(C17_OwnFiles(item)),
        TotalRows(C17_OwnFiles(item)))

C17_HasProfile(item) == item.source_id \in DOMAIN data_dir.cvs

C17_Reported == SelectSeq(C17_Day, C17_HasProfile)

C18_SkippedWithoutProfile ==
    pc = "returned" =>
        /\ error = None
        /\ \A k \in 1..Len(C17_Day) :
               ~C17_HasProfile(C17_Day[k]) =>
                   \A i \in 1..Len(report[1].sources) :
                       report[1].sources[i].source_id # C17_Day[k].source_id
        /\ report[1] =
               generate(date_str,
                        [k \in 1..Len(C17_Reported) |->
                            C17_OwnReport(C17_Reported[k])])

\* a source with files of the day and no profile, then a source with a
\* profile whose report is Urgent
C18_Witness ==
    /\ pc = "returned"
    /\ Len(C17_Day) = 2
    /\ ~C17_HasProfile(C17_Day[1])
    /\ C17_OwnFiles(C17_Day[1]) # <<>>
    /\ C17_HasProfile(C17_Day[2])
    /\ Len(report[1].sources) = 1
    /\ report[1].sources[1].source_id = C17_Day[2].source_id
    /\ report[1].status = URGENT

-----------------------------------------------------------------------------
(* C20.  The date filter.  A record is of the evaluation date when it has  *)
(* an uploaded_at whose date part is date_str; the records of a source are *)
(* counted and summed over the positions of its file_list in files.json.   *)

C20_OnDate(f) == "uploaded_at" \in DOMAIN f /\ f.uploaded_at.ymd = date_str

C20_OnDatePositions(file_list) ==
    {k \in 1..Len(file_list) : C20_OnDate(file_list[k])}

RECURSIVE C20_RowsAt(_, _)
C20_RowsAt(file_list, positions) ==
    IF positions = {} THEN 0
    ELSE LET k == CHOOSE k \in positions : TRUE
         IN  file_list[k].rows + C20_RowsAt(file_list, positions \ {k})

C20_FileListOf(source_id) ==
    C17_Day[CHOOSE k \in 1..Len(C17_Day) :
                C17_Day[k].source_id = source_id].file_list

\* C20: every file of the batch handed to the detectors has its uploaded_at
\* on the evaluation date; an incident that names a file names one of these;
\* and each source report counts the records of the evaluation date in the
\* source's file list and sums their rows, and no other record.
C20_DateFilter ==
    pc \in {"loop", "returned"} =>
        /\ \A i \in 1..Len(files) : C20_OnDate(files[i])
        /\ \A i \in 1..Len(source_reports) :
               LET r == source_reports[i]
                   file_list == C20_FileListOf(r.source_id)
                   on_date == C20_OnDatePositions(file_list)
               IN  /\ r.processed_files_count = Cardinality(on_date)
                   /\ r.total_rows = C20_RowsAt(file_list, on_date)
                   /\ \A j \in 1..Len(r.incidents) :
                          r.incidents[j].file_name # None =>
                              \E k \in on_date :
                                  file_list[k].filename
                                      = r.incidents[j].file_name[1]

\* a reported source whose file list holds a record of the next day, a
\* record with no uploaded_at and one record of the day: one file counted
C20_Witness ==
    /\ pc = "returned"
    /\ \E i \in 1..Len(report[1].sources) :
           LET r == report[1].sources[i]
               file_list == C20_FileListOf(r.source_id)
           IN  /\ Len(file_list) = 3
               /\ \E k \in 1..3 : "uploaded_at" \notin DOMAIN file_list[k]
               /\ \E k \in 1..3 :
                      /\ "uploaded_at" \in DOMAIN file_list[k]
                      /\ file_list[k].uploaded_at.ymd # date_str
               /\ r.processed_files_count = 1
               /\ r.total_rows = 10

-----------------------------------------------------------------------------
(* C19.  A date with no file batch.  A run has ended when it has returned  *)
(* its report or raised.                                                   *)

C19_Ended == pc \in {"returned", "raised"}

C19_NoBatch == TargetFolder(data_dir, date_str) = None

\* C19: a run for a date with no file batch ends with a not-found error and
\* returns no ConsolidatedReport.
C19_NoBatchNotFound ==
    (C19_Ended /\ C19_NoBatch) =>
        /\ error = Some("FileNotFoundError")
        /\ report = None

\* the same in pipeline mode alone, where it holds (SpecPipeline); the run
\* never enters the source loop
C19_PipelineNotFound ==
    (agent_mode = "pipeline" /\ pc # "start" /\ C19_NoBatch) =>
        /\ pc = "raised"
        /\ error = Some("FileNotFoundError")
        /\ report = None
        /\ source_reports = <<>>

C19_PipelineWitness ==
    /\ agent_mode = "pipeline"
    /\ pc = "raised"
    /\ C19_NoBatch
    /\ data_dir.folders # EmptyDict

-----------------------------------------------------------------------------
(* C21.  Malformed cells.  parse has been called on a readable document;   *)
(* a line of the document is one of the rows of the inputs.                *)

C21_Parsed == pc = "done" /\ content # None

C21_HasLine(l) == \E i \in 1..Len(content[1]) : content[1][i] = l

\* C21: parse raises on no malformed cell: whatever the cells of the four
\* tables hold, no exception reaches the caller of parse.
C21_NeverRaises == C21_Parsed => error = None

\* the cells parse raises on: a count of digits that are no decimal digits,
\* an upload window with two dashes, a median with two points, and an entity
\* table with no header row
C21_RaisingCell ==
    \/ C21_HasLine(SuperscriptFilesRow)
    \/ C21_HasLine(TwoDashUploadRow)
    \/ C21_HasLine(BadMedianRow)
    \/ C21_HasLine(EntityTitle) /\ ~C21_HasLine(EntityHeader)

\* what holds of the code: parse raises on these cells and on no other of
\* the documents; a cell that is no number, a cell with no dash, a short row
\* and a row with an empty cell raise nothing
C21_RaisesOnRaisingCells == C21_Parsed => (error # None <=> C21_RaisingCell)

\* a count that is no number becomes 0
C21_NonNumericIsZero ==
    (C21_Parsed /\ error = None /\ C21_HasLine(TueFilesRow)
        /\ ~C21_HasLine(TueUploadRow)) =>
        cv.expected_files_by_day[<<"T", "u", "e">>] =
            [mean |-> Zero, median |-> Decimal(1, 0), mode |-> Decimal(5, 1),
             std_dev |-> Zero, min |-> 0, max |-> 0]

C21_WitnessTolerated ==
    /\ C21_Parsed
    /\ error = None
    /\ C21_HasLine(TueFilesRow)
    /\ C21_HasLine(ShortUploadRow)
    /\ C21_HasLine(WedEmptyRow)

C21_WitnessWindow ==
    /\ C21_Parsed
    /\ error = Some("ValueError")
    /\ C21_HasLine(TwoDashUploadRow)
    /\ ~C21_HasLine(SuperscriptFilesRow)

C21_WitnessHeader ==
    /\ C21_Parsed
    /\ error = Some("IndexError")
    /\ ~C21_HasLine(EntityHeader)

-----------------------------------------------------------------------------
(* C22.  Missing sections.  The document parsed is made of six sections,   *)
(* any of them absent: the source-id field, the filename-pattern span and  *)
(* the four tables; each section has its field of the profile and the      *)
(* value of the field when the section is absent.                          *)

C22_Field ==
    <<"source_id", "filename_patterns", "expected_files_by_day",
      "upload_window_by_day", "entity_stats", "empty_file_stats">>

C22_Default == <<Unknown, <<>>, EmptyDict, EmptyDict, <<>>, EmptyDict>>

\* the sections the document parsed is made of
C22_Sections ==
    {t \in IdLines \X PatternLines \X FileStatsSections \X UploadSections
           \X EntitySections \X EmptySections :
        Document(t[1], t[2], t[3], t[4], t[5], t[6]) = content[1]}

\* the document of the sections t with section k absent
C22_Without(t, k) ==
    LET u == [i \in 1..6 |-> IF i = k THEN <<>> ELSE t[i]]
    IN  Document(u[1], u[2], u[3], u[4], u[5], u[6])

C22_ParsedWell == pc = "done" /\ content # None /\ error = None

\* C22: a document with a section absent parses without raising, the field
\* of the absent section is empty (the source id "Unknown"), and the fields
\* of the other sections are what they are with the section present.
C22_AbsentSectionAlone ==
    C22_ParsedWell =>
        \A t \in C22_Sections : \A k \in 1..6 :
            t[k] # <<>> =>
                LET without == C22_Without(t, k)
                IN  /\ parse_error(Some(without)) = None
                    /\ parse(without)[C22_Field[k]] = C22_Default[k]
                    /\ \A j \in (1..6) \ {k} :
                           parse(without)[C22_Field[j]] = cv[C22_Field[j]]

\* what holds of the code: the field of an absent section is empty, and
\* taking a section away makes no document raise
C22_AbsentIsEmpty ==
    C22_ParsedWell =>
        \A t \in C22_Sections : \A k \in 1..6 :
            /\ t[k] = <<>> => cv[C22_Field[k]] = C22_Default[k]
            /\ parse_error(Some(C22_Without(t, k))) = None

\* every section is absent and parse returns the empty profile
C22_WitnessAllAbsent ==
    /\ C22_ParsedWell
    /\ content[1] = <<>>
    /\ cv.source_id = Unknown
    /\ cv.entity_stats = <<>>

\* the rows of a later table are in the mapping of an earlier one
C22_WitnessLaterRows ==
    /\ C22_ParsedWell
    /\ C21_HasLine(EntityARow)
    /\ C21_HasLine(MonEmptyRow)
    /\ \E i \in 1..Len(cv.entity_stats) :
           cv.entity_stats[i].name = <<"M", "o", "n">>

-----------------------------------------------------------------------------
(* C23.  The rows of the file-count table.  The entry the claim gives for  *)
(* the row | Mon | 2.0 | 2.0 | 2.0 | 0.5 | 1 | 3 |.                         *)

C23_Mon == <<"M", "o", "n">>

C23_MonEntry ==
    [mean |-> Decimal(2, 0), median |-> Decimal(2, 0), mode |-> Decimal(2, 0),
     std_dev |-> Decimal(5, 1), min |-> 1, max |-> 3]

\* the file-count table of the document parsed has the row
C23_HasMonRow ==
    /\ pc = "done"
    /\ content # None
    /\ error = None
    /\ C21_HasLine(FileStatsTitle)
    /\ C21_HasLine(MonFilesRow)

\* C23: parsing a document whose file-count table has the row
\* | Mon | 2.0 | 2.0 | 2.0 | 0.5 | 1 | 3 | yields the entry mean 2.0,
\* median 2.0, mode 2.0, std_dev 0.5, min 1, max 3 under "Mon".
C23_MonRowEntry ==
    C23_HasMonRow =>
        /\ C23_Mon \in DOMAIN cv.expected_files_by_day
        /\ cv.expected_files_by_day[C23_Mon] = C23_MonEntry

\* what holds of the code: the row yields the entry when no later line of
\* the document is a row of seven cells or more that starts with Mon
C23_MonRowEntryLast ==
    (C23_HasMonRow /\ ~C21_HasLine(MonUploadRow)) =>
        /\ C23_Mon \in DOMAIN cv.expected_files_by_day
        /\ cv.expected_files_by_day[C23_Mon] = C23_MonEntry

C23_WitnessLast ==
    /\ C23_HasMonRow
    /\ C21_HasLine(WedUploadRow)
    /\ C21_HasLine(EntityARow)
    /\ cv.expected_files_by_day[C23_Mon] = C23_MonEntry

\* the entry under "Mon" is of the cells of the upload table's row
C23_WitnessOverwritten ==
    /\ C23_HasMonRow
    /\ C21_HasLine(MonUploadRow)
    /\ cv.expected_files_by_day[C23_Mon] =
           [mean |-> Decimal(8, 0), median |-> Decimal(9, 0),
            mode |-> Decimal(7, 0), std_dev |-> Decimal(1, 0),
            min |-> 0, max |-> 5]

-----------------------------------------------------------------------------
(* C24.  The weekday labels.  The six detectors run on Monday 2025-09-08   *)
(* over a profile whose four baselines are each stored under the label the *)
(* detectors read ("Mon" for the file counts, the window and the empty     *)
(* files, "Monday" for the entity's days), under the other form of the     *)
(* label, under both, or not at all.  The baseline under the other form    *)
(* differs from the one under the label read, so that reading it would     *)
(* change the incidents: five files expected, a window ending 08:00:00, a  *)
(* median of one row, one empty file allowed.                              *)

LabelDicts(read, other, under_read, under_other) ==
    {EmptyDict, OneKey(read, under_read), OneKey(other, under_other),
     [k \in {read, other} |-> IF k = read THEN under_read ELSE under_other]}

LabelProfiles ==
    {SourceCV("207936", expected, window,
              <<[name |-> EntityA, days |-> days]>>, empty) :
        expected \in LabelDicts("Mon", "Monday", FileStats(1, 1, 1, 0, 1),
                                FileStats(5, 5, 5, 5, 5)),
        window \in LabelDicts("Mon", "Monday",
                              UploadWindow(None, Some(TimeText(9, 0, 0))),
                              UploadWindow(None, Some(TimeText(8, 0, 0)))),
        days \in LabelDicts("Monday", "Mon", EntityDayStats(1, 10),
                            EntityDayStats(1, 1)),
        empty \in LabelDicts("Mon", "Monday", [max |-> 0], [max |-> 1])}

LabelFiles ==
    DetectFiles
    \cup {FileMetadata(Join(<<TokX, EntityA, TokS>>), 100, "processed", FALSE)}

LabelBatches == SeqsUpTo(LabelFiles, MaxLabelFiles)

InitLabels ==
    /\ pc = "start"
    /\ files \in LabelBatches
    /\ cv \in LabelProfiles
    /\ current_date = LateMonday
    /\ incidents = <<>>
    /\ source_report = None
    /\ source_reports = <<>>
    /\ report = None
    /\ error = None
    /\ detectors = AgentDetectors
    /\ data_dir = None
    /\ date_str = None
    /\ agent_mode = "pipeline"
    /\ todo = <<>>
    /\ scan_results = <<>>
    /\ source_stats = EmptyDict
    /\ step = 0
    /\ llm_calls = 0
    /\ summary = None
    /\ content = None

\* core.py 153-159: every detector runs on the batch
DetectAll ==
    /\ pc = "start"
    /\ incidents' = RunDetectors(detectors, files, cv, current_date)
    /\ pc' = "done"
    /\ UNCHANGED <<files, cv, current_date, source_report, source_reports,
                   report, error, run_vars>>

SpecLabels == InitLabels /\ [][DetectAll]_vars

C24_Only(d, key) == [k \in DOMAIN d \cap {key} |-> d[k]]

\* the two label schemes of the claim, Mon...Sun and Monday...Sunday
C24_Abbreviated(date) ==
    <<"Mon", "Tue", "Wed", "Thu", "Fri", "Sat", "Sun">>[(date % 7) + 1]
C24_FullName(date) ==
    <<"Monday", "Tuesday", "Wednesday", "Thursday", "Friday", "Saturday",
      "Sunday">>[(date % 7) + 1]

\* the profile with nothing but the baselines stored under the abbreviated
\* label of the date (counts, window, empty files) and under its full name
\* (the days of the entities)
C24_WithoutOtherForms(profile, date) ==
    SourceCV(profile.source_id,
             C24_Only(profile.expected_files_by_day, C24_Abbreviated(date)),
             C24_Only(profile.upload_window_by_day, C24_Abbreviated(date)),
             [i \in 1..Len(profile.entity_stats) |->
                 [name |-> profile.entity_stats[i].name,
                  days |-> C24_Only(profile.entity_stats[i].days,
                                    C24_FullName(date))]],
             C24_Only(profile.empty_file_stats, C24_Abbreviated(date)))

\* C24: the detectors read the count, window and empty-file baselines under
\* the abbreviated weekday label only and the entity baselines under the
\* full weekday name only: the incidents are those of the profile without
\* the baselines stored under the other form.
C24_LabelSchemes ==
    pc = "done" =>
        incidents = RunDetectors(detectors, files,
                                 C24_WithoutOtherForms(cv, current_date),
                                 current_date)

\* every baseline is stored under the other form alone, and the detectors
\* behave as with no baseline: the empty file of entity a is flagged, no
\* file is late, none is missing and the file of 100 rows is no surge
C24_Witness ==
    /\ pc = "done"
    /\ DOMAIN cv.expected_files_by_day = {"Monday"}
    /\ DOMAIN cv.upload_window_by_day = {"Monday"}
    /\ DOMAIN cv.empty_file_stats = {"Monday"}
    /\ DOMAIN cv.entity_stats[1].days = {"Mon"}
    /\ Len(files) = 2
    /\ files[1].rows = 0
    /\ files[2].rows = 100
    /\ \E i \in 1..Len(incidents) :
           incidents[i].incident_type = UNEXPECTED_EMPTY
    /\ \A i \in 1..Len(incidents) :
           incidents[i].incident_type
               \notin {MISSING_FILE, VOLUME_VARIATION, LATE_UPLOAD}

\* both forms are stored and the incidents are those of the label read
C24_WitnessBoth ==
    /\ pc = "done"
    /\ DOMAIN cv.expected_files_by_day = {"Mon", "Monday"}
    /\ DOMAIN cv.upload_window_by_day = {"Mon", "Monday"}
    /\ DOMAIN cv.entity_stats[1].days = {"Mon", "Monday"}
    /\ Len(files) = 1
    /\ files[1].rows = 100
    /\ Len(incidents) = 1
    /\ incidents[1].incident_type = VOLUME_VARIATION

-----------------------------------------------------------------------------
(* C25.  The overall status of the report Agent.run returns.               *)

C25_Returned == pc = "returned" /\ report # None

\* the highest status among source reports
C25_Highest(srcs) ==
    IF \E i \in 1..Len(srcs) : srcs[i].status = URGENT THEN URGENT
    ELSE IF \E i \in 1..Len(srcs) : srcs[i].status = NEEDS_ATTENTION
    THEN NEEDS_ATTENTION
    ELSE ALL_GOOD

\* C25: the overall status of a returned report is the highest status among
\* its source reports, in pipeline mode and in agentic mode.
C25_OverallIsHighest ==
    C25_Returned => report[1].status = C25_Highest(report[1].sources)

\* the same in pipeline mode alone, where it holds (SpecPipeline)
C25_PipelineIsHighest ==
    (agent_mode = "pipeline" /\ C25_Returned) =>
        report[1].status = C25_Highest(report[1].sources)

C25_PipelineWitness ==
    /\ agent_mode = "pipeline"
    /\ C25_Returned
    /\ Len(report[1].sources) = 2
    /\ report[1].sources[1].status = ALL_GOOD
    /\ report[1].sources[2].status = NEEDS_ATTENTION
    /\ report[1].status = NEEDS_ATTENTION

\* an agentic report that is AllGood over a NeedsAttention source
C25_AgenticWitness ==
    /\ agent_mode = "agentic"
    /\ C25_Returned
    /\ \E i \in 1..Len(report[1].sources) :
           report[1].sources[i].status = NEEDS_ATTENTION
    /\ report[1].status = ALL_GOOD

-----------------------------------------------------------------------------
(* C26.  The status of a source report of the agentic branch, against the  *)
(* status consolidate_source gives the same incident list.                 *)

C26_AgenticReturned == agent_mode = "agentic" /\ pc = "returned" /\ report # None

C26_ConsolidatedStatus(src) ==
    consolidate_source(src.source_id, src.incidents,
                       src.processed_files_count, src.total_rows).status

\* C26: every source report of an agentic run has the status that
\* consolidate_source computes for its incident list.
C26_SameStatus ==
    C26_AgenticReturned =>
        \A i \in 1..Len(report[1].sources) :
            report[1].sources[i].status =
                C26_ConsolidatedStatus(report[1].sources[i])

\* what holds of the code: the two agree on every list with an Urgent
\* incident or with at most three NeedsAttention incidents
C26_SameStatusUpToThree ==
    C26_AgenticReturned =>
        \A i \in 1..Len(report[1].sources) :
            LET src == report[1].sources[i]
                attention == SelectSeq(src.incidents,
                                 LAMBDA inc : inc.severity = NEEDS_ATTENTION)
            IN  ((\E k \in 1..Len(src.incidents) :
                     src.incidents[k].severity = URGENT)
                 \/ Len(attention) <= 3)
                => src.status = C26_ConsolidatedStatus(src)

\* a source with more than three NeedsAttention incidents and no Urgent one
C26_WitnessMany ==
    /\ C26_AgenticReturned
    /\ \E i \in 1..Len(report[1].sources) :
           LET src == report[1].sources[i]
           IN  /\ Len(src.incidents) > 3
               /\ \A k \in 1..Len(src.incidents) :
                      src.incidents[k].severity = NEEDS_ATTENTION
               /\ src.status = NEEDS_ATTENTION
               /\ C26_ConsolidatedStatus(src) = URGENT

\* a source with one NeedsAttention incident, on which the two agree
C26_WitnessAgree ==
    /\ C26_AgenticReturned
    /\ \E i \in 1..Len(report[1].sources) :
           /\ Len(report[1].sources[i].incidents) = 1
           /\ report[1].sources[i].status = NEEDS_ATTENTION
           /\ C26_ConsolidatedStatus(report[1].sources[i]) = NEEDS_ATTENTION

-----------------------------------------------------------------------------
(* C27.  The source id of the incidents of a source report.  The report is *)
(* built under the key of the batch in files.json; the profile is the one  *)
(* parsed from the document found under that key.                          *)

C27_OwnIncidents(src) ==
    \A k \in 1..Len(src.incidents) : src.incidents[k].source_id = src.source_id

\* C27: in every source report built by the run, every incident carries the
\* source id of the report, whatever source id the profile document gives.
C27_IncidentsOfTheSource ==
    \A i \in 1..Len(source_reports) : C27_OwnIncidents(source_reports[i])

\* what holds of the code: the incidents carry the source id parsed from the
\* profile document, which is the report's when the document names the key
C27_IncidentsOfTheProfile ==
    \A i \in 1..Len(source_reports) :
        LET src == source_reports[i]
            profile == ParseCv(data_dir, src.source_id)
        IN  /\ \A k \in 1..Len(src.incidents) :
                   src.incidents[k].source_id = profile.source_id
            /\ profile.source_id = src.source_id => C27_OwnIncidents(src)

\* a report whose incident carries "Unknown": the document has no id field
C27_WitnessUnknown ==
    /\ pc = "returned"
    /\ \E i \in 1..Len(source_reports) :
           /\ source_reports[i].source_id = "207936"
           /\ source_reports[i].incidents # <<>>
           /\ source_reports[i].incidents[1].source_id = "Unknown"

\* a report whose incident carries the id of another source
C27_WitnessOther ==
    /\ pc = "returned"
    /\ \E i \in 1..Len(source_reports) :
           /\ source_reports[i].incidents # <<>>
           /\ source_reports[i].incidents[1].source_id = OtherSourceId

C27_WitnessOwn ==
    /\ pc = "returned"
    /\ \E i \in 1..Len(source_reports) :
           /\ source_reports[i].incidents # <<>>
           /\ ParseCv(data_dir, source_reports[i].source_id).source_id =
                  source_reports[i].source_id
           /\ C27_OwnIncidents(source_reports[i])

-----------------------------------------------------------------------------
(* C28.  The date filter and the late-upload deadline, in a pipeline run.  *)
(* After an iteration of the source loop, files is the batch of the date,  *)
(* cv the profile of the source and incidents what the detectors returned. *)

C28_LateIncidents ==
    SelectSeq(incidents, LAMBDA inc : inc.incident_type = LATE_UPLOAD)

\* the end of the upload window of the evaluation date's weekday is a time
C28_HasEnd ==
    /\ "Mon" \in DOMAIN cv.upload_window_by_day
    /\ cv.upload_window_by_day["Mon"].end # None
    /\ cv.upload_window_by_day["Mon"].end[1].kind = "hms"

C28_EndSecs == SecondsOf(cv.upload_window_by_day["Mon"].end[1].hms)

\* the file was uploaded on the evaluation date, after the end of the window
\* plus four hours
C28_UploadedLateThatDay(f) ==
    /\ f.uploaded_at.ymd = date_str
    /\ SecondsOf(f.uploaded_at.hms) < 86400
    /\ \/ SecondsOf(f.uploaded_at.hms) > C28_EndSecs + 4 * 3600
       \/ /\ SecondsOf(f.uploaded_at.hms) = C28_EndSecs + 4 * 3600
          /\ f.uploaded_at.micro > 0

\* the LateUpload incidents are of files uploaded that day after the end of
\* the window plus four hours, and there is none when the window ends at
\* 20:00:00 or later
C28_OfTheDay ==
    /\ \A i \in 1..Len(C28_LateIncidents) :
           /\ C28_HasEnd
           /\ \E k \in 1..Len(files) :
                  /\ C28_LateIncidents[i].file_name = Some(files[k].filename)
                  /\ C28_UploadedLateThatDay(files[k])
    /\ (C28_HasEnd /\ C28_EndSecs >= 20 * 3600) => C28_LateIncidents = <<>>

\* C28: in a pipeline run every LateUpload incident is of a file uploaded on
\* the evaluation date between the window end plus four hours and midnight,
\* and a window that ends at 20:00:00 or later gives no LateUpload incident:
\* so it is after every iteration of the source loop that runs the detectors.
C28_LateBeforeMidnight ==
    [][ProcessSource => C28_OfTheDay']_vars

\* a window that ends at 20:00:00 and a file uploaded in the last microsecond
\* of the day: no incident
C28_Witness ==
    /\ agent_mode = "pipeline"
    /\ pc = "returned"
    /\ C28_HasEnd
    /\ C28_EndSecs = 20 * 3600
    /\ Len(files) = 1
    /\ files[1].uploaded_at.hms = <<23, 59, 59>>
    /\ source_report # None
    /\ source_report[1].incidents = incidents
    /\ C28_LateIncidents = <<>>

\* a window that ends at 09:00:00 and a file uploaded at 14:05:00
C28_WitnessLate ==
    /\ agent_mode = "pipeline"
    /\ C28_HasEnd
    /\ C28_EndSecs = 9 * 3600
    /\ Len(C28_LateIncidents) = 1
    /\ \E k \in 1..Len(files) : files[k].uploaded_at.hms = <<14, 5, 0>>

-----------------------------------------------------------------------------
(* C29.  UnexpectedVolumeVariationDetector with no file-count entry for    *)
(* the weekday of the evaluation date.                                     *)

\* a file of the batch is matched to an entity whose median of rows for the
\* weekday is above zero, and holds more than three times that median
C29_SurgingFile ==
    \E k \in 1..Len(files) :
        LET entity == FirstEntity(files[k].filename, cv.entity_stats)
            entity_day_stats ==
                EntityDayStatsOf(cv.entity_stats, entity[1],
                                 strftime_A(current_date))
        IN  /\ entity # None
            /\ entity_day_stats # None
            /\ entity_day_stats[1].median_rows > 0
            /\ files[k].rows > 3 * entity_day_stats[1].median_rows

\* C29: with no file-count entry for the weekday the detector returns the
\* empty list, so the per-file row check is not performed either.
C29_NoEntryNoIncident == (pc = "done" /\ ~HasExpected) => incidents = <<>>

\* the batch holds a file of 31 rows of an entity with a median of 10
C29_Witness ==
    /\ pc = "done"
    /\ ~HasExpected
    /\ strftime_A(current_date) = "Monday"
    /\ C29_SurgingFile
    /\ incidents = <<>>

-----------------------------------------------------------------------------
(* C30.  Termination of ReActAgent.run.  The run is in its loop at "react" *)
(* and has returned its result at "result"; llm_calls counts the calls of  *)
(* llm.generate, one in every iteration.                                   *)

\* the bound of the claim on the calls of generate
C30_MostCalls == 25

\* an iteration of the loop: one call of generate
C30_Iteration == pc = "react" /\ llm_calls' = llm_calls + 1

\* the iteration returns, and leaves what the tools collected as it is
C30_Returns ==
    /\ pc' = "result"
    /\ summary' # None
    /\ scan_results' = scan_results
    /\ source_stats' = source_stats

\* the result of a run that ran out of steps
C30_StoppedAtMaxSteps ==
    /\ summary = Some(MaxStepsSummary)
    /\ step = C30_MostCalls
    /\ llm_calls = C30_MostCalls

\* C30: ReActAgent.run terminates: it calls generate at most 25 times, every
\* iteration returns or increments the step counter, a finish or a final
\* answer returns at once, and after 25 steps with neither the run returns
\* the summary "Agent stopped (max steps reached)." with the incidents and
\* the stats collected so far.
C30_Terminates ==
    /\ [](llm_calls <= C30_MostCalls)
    /\ [][C30_Iteration => (C30_Returns \/ (pc' = "react" /\ step' = step + 1))]_vars
    /\ [][(pc = "react" /\ llm_calls' = llm_calls) =>
              (C30_Returns /\ C30_StoppedAtMaxSteps')]_vars
    /\ []((pc = "result" /\ summary # Some(FinalAnswer)) => C30_StoppedAtMaxSteps)
    /\ (pc = "react") ~> (pc = "result")
    /\ <>(pc = "returned")

\* the run has returned after 25 iterations that called tools and never
\* finished, with the incidents the tools collected
C30_Witness ==
    /\ pc = "result"
    /\ C30_StoppedAtMaxSteps
    /\ scan_results # <<>>
    /\ source_stats # EmptyDict

\* the run has returned at a final answer of its third iteration
C30_WitnessFinish ==
    /\ pc = "result"
    /\ summary = Some(FinalAnswer)
    /\ step = 2
    /\ llm_calls = 3

=============================================================================
